---- MODULE Spec2Model ----
(***************************************************************************)
(* Arbitrage detection engine (gewgegeg/crypto2): the executable-price     *)
(* walk, the two strategies and the concurrent multi-venue scan cycle.     *)
(*                                                                         *)
(* Numbers are Python floats (IEEE-754 binary64).  A float is modelled as  *)
(* a sign and a magnitude, the magnitude being the finite set of the       *)
(* exponents of its binary digits (1.5 = {0, -1}), so that the 53-bit      *)
(* significand never has to fit a machine integer.  Add, subtract and      *)
(* multiply are computed exactly on magnitudes and then rounded once to    *)
(* 53 significant bits, ties to even, as the hardware does; divide is      *)
(* long division to 55 quotient bits plus a sticky bit, rounded the same   *)
(* way.  Exponent range (overflow to inf, subnormals), NaN and the sign of *)
(* zero are not modelled: the inputs used stay far from them.              *)
(***************************************************************************)
EXTENDS Integers, Sequences, FiniteSets, TLC

\* Optional[float] is a float record or None; both are records, so that they compare
None == [none |-> TRUE]

\* Optional[str] of a venue id
NoEx == "None"

-----------------------------------------------------------------------------
(* Python float arithmetic                                                 *)

MantissaBits == 53

MinOf(S) == CHOOSE x \in S : \A y \in S : x <= y

\* the highest element, found as the lowest of the negated ones: a set is
\* enumerated from its lowest element, which is the first one tried
MaxOf(S) == 0 - MinOf({0 - x : x \in S})

\* a < b on magnitudes: the highest digit in which they differ belongs to b
MagLt(a, b) ==
    LET d == (a \ b) \cup (b \ a)
    IN  d # {} /\ MaxOf(d) \in b

MagLe(a, b) == a = b \/ MagLt(a, b)

MagShift(a, k) == {e + k : e \in a}

\* the places that send a carry (a borrow) to the next place: the places
\* g that generate one, and those reached from them through the places p
\* that pass one on; the window looked through doubles at each step
RECURSIVE MagCarries(_, _, _)
MagCarries(g, p, k) ==
    IF g = {} \/ p = {} THEN g
    ELSE MagCarries(g \cup (p \cap MagShift(g, k)), p \cap MagShift(p, k), 2 * k)

\* the digits one of x, c has and the other has not
MagXor(x, c) == (x \cup c) \ (x \cap c)

\* a + b: a place generates a carry when both have a digit there and passes
\* one on when one of them has
MagAdd(a, b) ==
    LET x == MagXor(a, b)
    IN  MagXor(x, MagShift(MagCarries(a \cap b, x, 1), 1))

\* a - b for a >= b: a place generates a borrow when b alone has a digit
\* there and passes one on when both or neither have
MagSub(a, b) ==
    IF b = {} THEN a
    ELSE LET x == MagXor(a, b)
             p == {e \in MinOf(b)..MaxOf(a) : e \notin x}
         IN  MagXor(x, MagShift(MagCarries(b \ a, p, 1), 1))

\* a * b: the sum of a shifted by each digit of b (of the one with fewer
\* digits), b halved at each step
RECURSIVE MagMul(_, _)
MagMul(a, b) ==
    IF a = {} \/ b = {} THEN {}
    ELSE IF Cardinality(a) < Cardinality(b) THEN MagMul(b, a)
    ELSE IF Cardinality(b) = 1 THEN MagShift(a, MaxOf(b))
    ELSE LET m == (MinOf(b) + MaxOf(b) + 1) \div 2
         IN  MagAdd(MagMul(a, {e \in b : e >= m}), MagMul(a, {e \in b : e < m}))

\* round to nearest, ties to even, keeping MantissaBits significant digits
MagRound(a) ==
    IF a = {} THEN {}
    ELSE LET top  == MaxOf(a)
             lsb  == top - MantissaBits + 1
             keep == {e \in a : e >= lsb}
             rest == a \ keep
             up   == /\ (lsb - 1) \in rest
                     /\ (rest # {lsb - 1} \/ lsb \in keep)
         IN  IF up THEN MagAdd(keep, {lsb}) ELSE keep

\* long division: the digits q of r / b from exponent e down to exponent
\* low, and the remainder left after them (the range halved at each step)
RECURSIVE MagDivDigits(_, _, _, _)
MagDivDigits(r, b, e, low) ==
    IF r = {} \/ e < low THEN [q |-> {}, r |-> r]
    ELSE IF e = low
    THEN LET d == MagShift(b, e)
         IN  IF MagLe(d, r) THEN [q |-> {e}, r |-> MagSub(r, d)]
             ELSE [q |-> {}, r |-> r]
    ELSE LET mid  == (e + low + 1) \div 2
             high == MagDivDigits(r, b, e, mid)
             rest == MagDivDigits(high.r, b, mid - 1, low)
         IN  [q |-> high.q \cup rest.q, r |-> rest.r]

\* a / b for b # {}, correctly rounded: MantissaBits + 2 digits of the
\* quotient and a sticky digit below them when the remainder is not zero
MagDiv(a, b) ==
    IF a = {} THEN {}
    ELSE LET top == MaxOf(a) - MaxOf(b)
             low == top - MantissaBits - 1
             res == MagDivDigits(a, b, top, low)
         IN  MagRound(res.q \cup (IF res.r = {} THEN {} ELSE {low - 2}))

F(n, m) == [neg |-> n /\ m # {}, mag |-> m]

FZero == F(FALSE, {})

\* float(n) for an integer n of small magnitude (exactly representable)
RECURSIVE NatMag(_, _)
NatMag(n, e) ==
    IF n = 0 THEN {}
    ELSE (IF n % 2 = 1 THEN {e} ELSE {}) \cup NatMag(n \div 2, e + 1)

FromInt(n) == IF n < 0 THEN F(TRUE, NatMag(-n, 0)) ELSE F(FALSE, NatMag(n, 0))

\* n * 2^k
Dyadic(n, k) == F(n < 0, MagShift(FromInt(n).mag, k))

FNeg(x) == F(~x.neg, x.mag)

FIsZero(x) == x.mag = {}

FLt(x, y) ==
    IF x.neg /\ ~y.neg THEN TRUE
    ELSE IF ~x.neg /\ y.neg THEN FALSE
    ELSE IF x.neg THEN MagLt(y.mag, x.mag)
    ELSE MagLt(x.mag, y.mag)

FLe(x, y) == x = y \/ FLt(x, y)

FGt(x, y) == FLt(y, x)

FGe(x, y) == FLe(y, x)

\* the exact sum, before rounding
XAdd(x, y) ==
    IF x.neg = y.neg THEN F(x.neg, MagAdd(x.mag, y.mag))
    ELSE IF MagLe(y.mag, x.mag) THEN F(x.neg, MagSub(x.mag, y.mag))
    ELSE F(y.neg, MagSub(y.mag, x.mag))

XMul(x, y) == F(x.neg # y.neg, MagMul(x.mag, y.mag))

FRound(x) == F(x.neg, MagRound(x.mag))

FAdd(x, y) == FRound(XAdd(x, y))

FSub(x, y) == FRound(XAdd(x, FNeg(y)))

FMul(x, y) == FRound(XMul(x, y))

\* x / y for y # 0 (Python raises ZeroDivisionError for y = 0: see the callers)
FDiv(x, y) == F(x.neg # y.neg, MagDiv(x.mag, y.mag))

\* Python's min(a, b): a unless b < a
FMin(x, y) == IF FLt(y, x) THEN y ELSE x

\* Python's max(a, b): a unless b > a
FMax(x, y) == IF FGt(y, x) THEN y ELSE x

-----------------------------------------------------------------------------
(* The scan cycle: scan_symbols_once                                       *)

VARIABLES
    \* the arguments of scan_symbols_once (clients as the venue ids in the
    \* dict's iteration order)
    clients, ex_symbols, symbols, size, threshold, workers, min_volume, enforce_lots,
    \* what each venue will answer to fetch_tickers and load_markets
    tickers, markets,
    \* the coordinating thread: its position and its locals
    pc, symIdx, exIdx, ex_vols, ex_limits,
    best_ask_val, best_ask_ex, best_bid_val, best_bid_ex, rows,
    \* the thread pool of the current symbol: submitted and waiting, in
    \* flight, done and not yet yielded by as_completed
    queue, running, finished,
    \* history of the current symbol: each venue's answer, the order in
    \* which as_completed yielded the venues, the outcome of the symbol
    resp, order, last

VARIABLES
    \* a call of one of the pure functions: its arguments, where it stands
    \* ("idle" while the scan cycle is the program modelled) and its result
    callArgs, callPc, callRet

callVars == <<callArgs, callPc, callRet>>

NoCall == callArgs = <<>> /\ callPc = "idle" /\ callRet = <<>>

inputVars == <<clients, ex_symbols, symbols, size, threshold, workers, min_volume,
               enforce_lots, tickers, markets>>

bestVars == <<best_ask_val, best_ask_ex, best_bid_val, best_bid_ex>>

poolVars == <<queue, running, finished, resp>>

scanVars == <<inputVars, pc, symIdx, exIdx, ex_vols, ex_limits, bestVars, rows,
              poolVars, order, last>>

vars == <<scanVars, callVars>>

Range(q) == {q[i] : i \in 1..Len(q)}

Venues == Range(clients)

SymbolSet == Range(symbols)

MaxPrice == 2

MaxWorkers == 2

Prices == {FromInt(p) : p \in 0..MaxPrice}

PriceLevel(p, a) == [price |-> p, amount |-> a]

\* one side of a book as the scan sees it (best level first)
Sides == {<<>>} \cup {<<PriceLevel(p, FromInt(1))>> : p \in Prices}

FetchFailed == [ok |-> FALSE]

OrderBook(a, b) == [ok |-> TRUE, asks |-> a, bids |-> b]

\* what client.fetch_order_book can do: raise, or return a book
Responses == {FetchFailed} \cup {OrderBook(a, b) : a \in Sides, b \in Sides}

MarketLimits(a, c) == [min_amount |-> a, min_cost |-> c]

NoLimits == MarketLimits(FZero, FZero)

\* dict.get(key, default) on a function used as a dict
Get(d, k, default) == IF k \in DOMAIN d THEN d[k] ELSE default

EmptyDict == [k \in {} |-> FZero]

\* faulty variant: a failed fetch reported as a book quoting 0.0 on both sides
fetch_best_levels_FailAsZero(r) ==
    IF r.ok
    THEN <<IF r.asks # <<>> THEN r.asks[1].price ELSE None,
           IF r.bids # <<>> THEN r.bids[1].price ELSE None>>
    ELSE <<FZero, FZero>>

fetch_best_levels(r) ==
    IF r.ok
    THEN <<IF r.asks # <<>> THEN r.asks[1].price ELSE None,
           IF r.bids # <<>> THEN r.bids[1].price ELSE None>>
    ELSE <<None, None>>

\* faulty variant: a failed ticker fetch leaves every symbol with a volume
fetch_exchange_volumes_FailAsFull(t) ==
    IF t.ok
    THEN [s \in {x \in SymbolSet : t.qv[x] # None} |-> t.qv[s]]
    ELSE [s \in SymbolSet |-> FromInt(1)]

\* t: [ok |-> FALSE] when fetch_tickers raised both times, else for each
\* symbol its quoteVolume or None (no ticker, or no quoteVolume)
fetch_exchange_volumes(t) ==
    IF t.ok
    THEN [s \in {x \in SymbolSet : t.qv[x] # None} |-> t.qv[s]]
    ELSE EmptyDict

\* m: [ok |-> FALSE] when load_markets raised, else the market's minimum
\* amount and cost (a missing market or a missing limit reads as 0)
get_market_limits(m) ==
    IF m.ok
    THEN MarketLimits(IF FIsZero(m.amount) THEN FZero ELSE m.amount,
                      IF FIsZero(m.cost) THEN FZero ELSE m.cost)
    ELSE NoLimits

Best(av, ae, bv, be) == [ask_val |-> av, ask_ex |-> ae, bid_val |-> bv, bid_ex |-> be]

NoBest == Best(None, NoEx, None, NoEx)

\* faulty variant: the first quote of a side is kept whatever comes later
UpdateBest_FirstWins(b, ex, ask, bid) ==
    LET newAsk == ask # None /\ b.ask_val = None
        newBid == bid # None /\ b.bid_val = None
    IN  Best(IF newAsk THEN ask ELSE b.ask_val, IF newAsk THEN ex ELSE b.ask_ex,
             IF newBid THEN bid ELSE b.bid_val, IF newBid THEN ex ELSE b.bid_ex)

\* lines 159-164: one yielded future folded into the trackers
UpdateBest(b, ex, ask, bid) ==
    LET newAsk == ask # None /\ (b.ask_val = None \/ FLt(ask, b.ask_val))
        newBid == bid # None /\ (b.bid_val = None \/ FGt(bid, b.bid_val))
    IN  Best(IF newAsk THEN ask ELSE b.ask_val, IF newAsk THEN ex ELSE b.ask_ex,
             IF newBid THEN bid ELSE b.bid_val, IF newBid THEN ex ELSE b.bid_ex)

\* faulty variant: the same-venue test is missing
ValidityGate_NoVenueTest(b) ==
    ~(b.ask_val = None \/ b.bid_val = None)

\* lines 165-168
ValidityGate(b) ==
    /\ ~(b.ask_val = None \/ b.bid_val = None)
    /\ ~(b.ask_ex = b.bid_ex)

\* faulty variant: only the ask venue's volume is tested
VolumeOK_AskVenueOnly(sym, b) ==
    IF FGt(min_volume, FZero)
    THEN ~FLt(Get(Get(ex_vols, b.ask_ex, EmptyDict), sym, FZero), min_volume)
    ELSE TRUE

\* lines 171-175
VolumeOK(sym, b) ==
    IF FGt(min_volume, FZero)
    THEN LET va == Get(Get(ex_vols, b.ask_ex, EmptyDict), sym, FZero)
             vb == Get(Get(ex_vols, b.bid_ex, EmptyDict), sym, FZero)
         IN  ~(FLt(va, min_volume) \/ FLt(vb, min_volume))
    ELSE TRUE

LimitsOf(ex, sym) ==
    Get(Get(ex_limits, ex, [k \in {} |-> NoLimits]), sym, NoLimits)

\* faulty variant: the sell side on the bid venue is not tested
LotsOK_NoBidVenue(sym, b, base_amount) ==
    LET la == LimitsOf(b.ask_ex, sym)
    IN  /\ ~(~FIsZero(la.min_amount) /\ FLt(base_amount, la.min_amount))
        /\ ~(~FIsZero(la.min_cost) /\ FLt(size, la.min_cost))

\* lines 180-189, given base_amount
LotsOK(sym, b, base_amount) ==
    LET la == LimitsOf(b.ask_ex, sym)
        lb == LimitsOf(b.bid_ex, sym)
    IN  /\ ~(~FIsZero(la.min_amount) /\ FLt(base_amount, la.min_amount))
        /\ ~(~FIsZero(la.min_cost) /\ FLt(size, la.min_cost))
        /\ ~(~FIsZero(lb.min_amount) /\ FLt(base_amount, lb.min_amount))

\* lines 192-195
Profit(ask, bid) ==
    LET cost == size
        base_amount == FDiv(size, ask)
        proceeds == FMul(bid, base_amount)
    IN  FSub(proceeds, cost)

\* line 196
Roi(ask, bid) ==
    LET cost == size
    IN  IF FGt(cost, FZero) THEN FDiv(FMul(FromInt(100), Profit(ask, bid)), cost)
        ELSE FZero

Row(sym, b) ==
    [sym |-> sym, ask_ex |-> b.ask_ex, ask |-> b.ask_val,
     bid_ex |-> b.bid_ex, bid |-> b.bid_val,
     roi |-> Roi(b.ask_val, b.bid_val), profit |-> Profit(b.ask_val, b.bid_val)]

NotYet == [out |-> "none"]

Skipped == [out |-> "skip"]

Raised == [out |-> "raise"]

Emitted(r) == [out |-> "row", row |-> r]

\* lines 165-198: what the loop body does with the trackers of one symbol.
\* size / best_ask_val (line 179 or 193) raises ZeroDivisionError for a
\* best ask of 0.0
EvalSymbol(sym, b) ==
    IF ~ValidityGate(b) THEN Skipped
    ELSE IF ~VolumeOK(sym, b) THEN Skipped
    ELSE IF FIsZero(b.ask_val) THEN Raised
    ELSE IF enforce_lots /\ ~LotsOK(sym, b, FDiv(size, b.ask_val)) THEN Skipped
    ELSE LET row == Row(sym, b)
         IN  IF FGe(row.roi, threshold) THEN Emitted(row) ELSE Skipped

\* faulty variant: a thread per work item
CanStart_Unbounded == TRUE

\* ThreadPoolExecutor: a queued work item starts only on one of at most
\* max_workers threads
CanStart == Cardinality(running) < workers

Sym == symbols[symIdx]

TickersFailed == [ok |-> FALSE]

Tickers(q) == [ok |-> TRUE, qv |-> q]

MarketFailed == [ok |-> FALSE]

Market(a, c) == [ok |-> TRUE, amount |-> a, cost |-> c]

ScanInit(clientSet, symbolLists, listings, sizes, thresholds, workerSet, minVolumes, lotFlags, tickerSet, marketSet) ==
    /\ clients \in clientSet
    /\ symbols \in symbolLists
    /\ ex_symbols \in [Venues -> listings]
    /\ size \in sizes
    /\ threshold \in thresholds
    /\ workers \in workerSet
    /\ min_volume \in minVolumes
    /\ enforce_lots \in lotFlags
    /\ tickers \in [Venues -> {TickersFailed} \cup {Tickers(q) : q \in [SymbolSet -> tickerSet]}]
    /\ markets \in [Venues -> [SymbolSet -> marketSet]]
    /\ pc = "prepass"
    /\ symIdx = 0
    /\ exIdx = 1
    /\ ex_vols = [k \in {} |-> EmptyDict]
    /\ ex_limits = [k \in {} |-> [s \in {} |-> NoLimits]]
    /\ best_ask_val = None
    /\ best_ask_ex = NoEx
    /\ best_bid_val = None
    /\ best_bid_ex = NoEx
    /\ rows = <<>>
    /\ queue = <<>>
    /\ running = {}
    /\ finished = {}
    /\ resp = [k \in {} |-> FetchFailed]
    /\ order = <<>>
    /\ last = NotYet
    /\ NoCall

\* lines 139-143: one venue of the pre-pass
PrePass ==
    /\ pc = "prepass"
    /\ LET ex == clients[exIdx]
       IN  /\ ex_vols' = [k \in DOMAIN ex_vols \cup {ex} |->
                            IF k = ex THEN fetch_exchange_volumes(tickers[ex]) ELSE ex_vols[k]]
           /\ ex_limits' = [k \in DOMAIN ex_limits \cup {ex} |->
                            IF k = ex THEN [s \in SymbolSet |-> get_market_limits(markets[ex][s])]
                            ELSE ex_limits[k]]
    /\ IF exIdx < Len(clients)
       THEN exIdx' = exIdx + 1 /\ pc' = pc
       ELSE exIdx' = 1 /\ pc' = "loop"
    /\ UNCHANGED <<callVars, inputVars, symIdx, bestVars, rows, poolVars, order, last>>

\* lines 145-147 and 200: the next symbol, its futures dict and its pool, or
\* the return; ThreadPoolExecutor raises ValueError for max_workers <= 0
OpenPool ==
    /\ pc = "loop"
    /\ IF symIdx = Len(symbols)
       THEN /\ pc' = "done"
            /\ UNCHANGED <<symIdx, exIdx, bestVars, poolVars, order, last>>
       ELSE /\ symIdx' = symIdx + 1
            /\ exIdx' = 1
            /\ best_ask_val' = None
            /\ best_ask_ex' = NoEx
            /\ best_bid_val' = None
            /\ best_bid_ex' = NoEx
            /\ queue' = <<>>
            /\ running' = {}
            /\ finished' = {}
            /\ resp' = [k \in {} |-> FetchFailed]
            /\ order' = <<>>
            /\ IF workers <= 0
               THEN pc' = "raised" /\ last' = Raised
               ELSE pc' = "submit" /\ last' = NotYet
    /\ UNCHANGED <<callVars, inputVars, ex_vols, ex_limits, rows>>

\* lines 148-151: one client of the submit loop
Submit ==
    /\ pc = "submit"
    /\ LET ex == clients[exIdx]
       IN  queue' = IF Sym \in Get(ex_symbols, ex, {}) THEN Append(queue, ex) ELSE queue
    /\ IF exIdx < Len(clients)
       THEN exIdx' = exIdx + 1 /\ pc' = pc
       ELSE exIdx' = 1 /\ pc' = "collect"
    /\ UNCHANGED <<callVars, inputVars, symIdx, ex_vols, ex_limits, bestVars, rows,
                   running, finished, resp, order, last>>

\* a pool thread takes the oldest work item
Start ==
    /\ pc \in {"submit", "collect"}
    /\ queue # <<>>
    /\ CanStart
    /\ running' = running \cup {Head(queue)}
    /\ queue' = Tail(queue)
    /\ UNCHANGED <<callVars, inputVars, pc, symIdx, exIdx, ex_vols, ex_limits, bestVars, rows,
                   finished, resp, order, last>>

\* faulty variant: the pool thread folds its answer into the trackers itself
Complete_WritesTrackers(ex, r) ==
    /\ ex \in running
    /\ running' = running \ {ex}
    /\ finished' = finished \cup {ex}
    /\ resp' = [k \in DOMAIN resp \cup {ex} |-> IF k = ex THEN r ELSE resp[k]]
    /\ LET ab == fetch_best_levels(r)
           b  == UpdateBest(Best(best_ask_val, best_ask_ex, best_bid_val, best_bid_ex), ex, ab[1], ab[2])
       IN  /\ best_ask_val' = b.ask_val
           /\ best_ask_ex' = b.ask_ex
           /\ best_bid_val' = b.bid_val
           /\ best_bid_ex' = b.bid_ex
    /\ UNCHANGED <<callVars, inputVars, pc, symIdx, exIdx, ex_vols, ex_limits, rows,
                   queue, order, last>>

\* fetch_best_levels ends on a pool thread: the venue answered r
Complete(ex, r) ==
    /\ ex \in running
    /\ running' = running \ {ex}
    /\ finished' = finished \cup {ex}
    /\ resp' = [k \in DOMAIN resp \cup {ex} |-> IF k = ex THEN r ELSE resp[k]]
    /\ UNCHANGED <<callVars, inputVars, pc, symIdx, exIdx, ex_vols, ex_limits, bestVars, rows,
                   queue, order, last>>

CurrentBest == Best(best_ask_val, best_ask_ex, best_bid_val, best_bid_ex)

\* lines 156-164: as_completed yields a finished future
Collect(ex) ==
    /\ pc = "collect"
    /\ ex \in finished
    /\ LET ab == fetch_best_levels(resp[ex])
           b  == UpdateBest(CurrentBest, ex, ab[1], ab[2])
       IN  /\ best_ask_val' = b.ask_val
           /\ best_ask_ex' = b.ask_ex
           /\ best_bid_val' = b.bid_val
           /\ best_bid_ex' = b.bid_ex
    /\ finished' = finished \ {ex}
    /\ order' = Append(order, ex)
    /\ UNCHANGED <<callVars, inputVars, pc, symIdx, exIdx, ex_vols, ex_limits, rows,
                   queue, running, resp, last>>

\* faulty variant: the loop body goes on without waiting for the futures
\* that are still queued or in flight
Evaluate_NoWait ==
    /\ pc = "collect"
    /\ LET o == EvalSymbol(Sym, CurrentBest)
       IN  /\ last' = o
           /\ rows' = IF o.out = "row" THEN Append(rows, o.row) ELSE rows
           /\ pc' = IF o.out = "raise" THEN "raised" ELSE "loop"
    /\ UNCHANGED <<callVars, inputVars, symIdx, exIdx, ex_vols, ex_limits, bestVars, poolVars, order>>

\* lines 165-198: the rest of the loop body, once every future was yielded
Evaluate ==
    /\ pc = "collect"
    /\ queue = <<>> /\ running = {} /\ finished = {}
    /\ LET o == EvalSymbol(Sym, CurrentBest)
       IN  /\ last' = o
           /\ rows' = IF o.out = "row" THEN Append(rows, o.row) ELSE rows
           /\ pc' = IF o.out = "raise" THEN "raised" ELSE "loop"
    /\ UNCHANGED <<callVars, inputVars, symIdx, exIdx, ex_vols, ex_limits, bestVars, poolVars, order>>

Next ==
    \/ PrePass
    \/ OpenPool
    \/ Submit
    \/ Start
    \/ \E ex \in Venues, r \in Responses : Complete(ex, r)
    \/ \E ex \in Venues : Collect(ex)
    \/ Evaluate

\* lines 148-164 run to the end for the venues in listed, their futures
\* yielded in the order ord
RECURSIVE FoldBest(_, _, _)
FoldBest(b, respOf, ord) ==
    IF ord = <<>> THEN b
    ELSE LET ex == Head(ord)
             ab == fetch_best_levels(respOf[ex])
         IN  FoldBest(UpdateBest(b, ex, ab[1], ab[2]), respOf, Tail(ord))

\* lines 146-198: the loop body for one symbol, given the venues that list
\* it, their answers and the order in which their futures are yielded
ScanSymbolSeq(sym, listed, respOf, ord) ==
    LET IsListed(ex) == ex \in listed
    IN  EvalSymbol(sym, FoldBest(NoBest, respOf, SelectSeq(ord, IsListed)))

TwoVenues == {<<"a", "b">>}

ThreeVenues == {<<"a", "b", "c">>}

\* each venue lists S2, and S1 or not
Listings == {{"S1", "S2"}, {"S2"}}

\* two venues, two symbols, the filters off
Init ==
    ScanInit(TwoVenues, {<<"S1", "S2">>}, Listings, {FromInt(2)},
             {FromInt(0), FromInt(100)}, 1..MaxWorkers, {FZero}, {FALSE},
             {}, {MarketFailed})

Spec == Init /\ [][Next]_vars

\* three venues, one symbol, every worker limit
InitPool ==
    ScanInit(ThreeVenues, {<<"S1">>}, {{"S1"}, {}}, {FromInt(2)}, {FromInt(0)},
             0..MaxWorkers, {FZero}, {FALSE}, {}, {MarketFailed})

SpecPool == InitPool /\ [][Next]_vars

\* the ticker fetch failing or not venue by venue, and on every venue the
\* limits lookup failing for one of the two symbols
InitPrePass ==
    /\ ScanInit(TwoVenues, {<<"S1", "S2">>}, {{"S1", "S2"}}, {FromInt(2)}, {FromInt(100)},
                {1}, {FZero}, {FALSE}, {FromInt(2)},
                {MarketFailed, Market(FromInt(2), FromInt(3))})
    /\ \A ex \in Venues : markets[ex]["S1"].ok # markets[ex]["S2"].ok

SpecPrePass == InitPrePass /\ [][Next]_vars

\* one symbol, the volume filter on or off
InitVolume ==
    ScanInit(TwoVenues, {<<"S1">>}, {{"S1"}}, {FromInt(2)}, {FromInt(0)},
             {MaxWorkers}, {FromInt(-1), FZero, FromInt(2)}, {FALSE},
             {None, FromInt(1), FromInt(2), FromInt(3)}, {MarketFailed})

SpecVolume == InitVolume /\ [][Next]_vars

\* one symbol, the lot filter on or off
InitLots ==
    ScanInit(TwoVenues, {<<"S1">>}, {{"S1"}}, {FZero, FromInt(2)}, {FromInt(0)},
             {MaxWorkers}, {FZero}, BOOLEAN, {},
             {MarketFailed} \cup {Market(a, c) : a \in {FZero, FromInt(2)},
                                                 c \in {FZero, FromInt(3)}})

SpecLots == InitLots /\ [][Next]_vars

-----------------------------------------------------------------------------
(* The executable-price model: _executable_price                           *)

ZeroDivisionError == [raise |-> "ZeroDivisionError"]

\* lines 12-17 (24-29): the walk over the levels of one side. The result is
\* the pair of remaining and cost (proceeds) at the end of the loop
RECURSIVE WalkLevels(_, _, _)
WalkLevels(levels, remaining, cost) ==
    IF levels = <<>> THEN <<remaining, cost>>
    ELSE LET level == Head(levels)
             take  == FMin(level.amount, remaining)
             cost2 == FAdd(cost, FMul(take, level.price))
             rem2  == FSub(remaining, take)
         IN  IF FLe(rem2, FZero) THEN <<rem2, cost2>>
             ELSE WalkLevels(Tail(levels), rem2, cost2)

\* lines 8-32; cost / size raises ZeroDivisionError for size = 0.0
_executable_price(order_book, side, sz) ==
    LET levels == IF side = "buy" THEN order_book.asks ELSE order_book.bids
        w == WalkLevels(levels, sz, FZero)
    IN  IF FGt(w[1], FZero) THEN None
        ELSE IF FIsZero(sz) THEN ZeroDivisionError
        ELSE FDiv(w[2], sz)

MaxLevels == 3

LevelPrices == {FromInt(1), FromInt(2)}

\* 2^53 is the first float whose successor is 2 away
LevelAmounts == {FromInt(1), FromInt(3), Dyadic(1, MantissaBits)}

LevelSet == {PriceLevel(p, a) : p \in LevelPrices, a \in LevelAmounts}

SideSeqs == UNION {[1..n -> LevelSet] : n \in 0..MaxLevels}

\* the sum of the amounts of a side, exactly (not rounded)
RECURSIVE TotalAmount(_)
TotalAmount(levels) ==
    IF levels = <<>> THEN FZero
    ELSE XAdd(Head(levels).amount, TotalAmount(Tail(levels)))

IsFloat(x) == FRound(x) = x

SideOf(order_book, side) == IF side = "buy" THEN order_book.asks ELSE order_book.bids

\* the requested sizes: some fixed ones (the last is the second float after
\* 2^53), and the depth of the side walked when it is a float
SizesFor(levels) ==
    {FZero, FromInt(2), FromInt(5), FAdd(Dyadic(1, MantissaBits), FromInt(2))} \cup
    (IF IsFloat(TotalAmount(levels)) THEN {TotalAmount(levels)} ELSE {})

ScanIdle ==
    /\ clients = <<>>
    /\ symbols = <<>>
    /\ ex_symbols = <<>>
    /\ size = FZero
    /\ threshold = FZero
    /\ workers = 0
    /\ min_volume = FZero
    /\ enforce_lots = FALSE
    /\ tickers = <<>>
    /\ markets = <<>>
    /\ pc = "idle"
    /\ symIdx = 0
    /\ exIdx = 1
    /\ ex_vols = <<>>
    /\ ex_limits = <<>>
    /\ best_ask_val = None
    /\ best_ask_ex = NoEx
    /\ best_bid_val = None
    /\ best_bid_ex = NoEx
    /\ rows = <<>>
    /\ queue = <<>>
    /\ running = {}
    /\ finished = {}
    /\ resp = <<>>
    /\ order = <<>>
    /\ last = NotYet

InitExec ==
    /\ ScanIdle
    /\ \E sd \in {"buy", "sell"}, walked \in SideSeqs, other \in {<<>>, <<PriceLevel(FromInt(1), FromInt(1))>>} :
         \E sz \in SizesFor(walked) :
            callArgs = [fn |-> "_executable_price",
                        order_book |-> IF sd = "buy" THEN OrderBook(walked, other)
                                       ELSE OrderBook(other, walked),
                        side |-> sd, size |-> sz]
    /\ callPc = "call"
    /\ callRet = <<>>

ExecutablePrice ==
    /\ callPc = "call"
    /\ callArgs.fn = "_executable_price"
    /\ callRet' = _executable_price(callArgs.order_book, callArgs.side, callArgs.size)
    /\ callPc' = "return"
    /\ UNCHANGED <<callArgs, scanVars>>

NextExec == ExecutablePrice

SpecExec == InitExec /\ [][NextExec]_vars

-----------------------------------------------------------------------------
(* Properties of the scan cycle                                            *)

\* the loop body of the current symbol ran to its end (or raised in it)
Evaluated == pc \in {"loop", "done", "raised"} /\ last.out # "none" /\ workers > 0

\* the venues whose future was created for the current symbol, in the
\* order of the submit loop
SubmitOrder ==
    LET Answered(ex) == ex \in DOMAIN resp
    IN  SelectSeq(clients, Answered)

SameOutcome(o1, o2) ==
    /\ o1.out = o2.out
    /\ o1.out = "row" =>
         /\ o1.row.ask = o2.row.ask
         /\ o1.row.bid = o2.row.bid
         /\ o1.row.roi = o2.row.roi
         /\ o1.row.profit = o2.row.profit

\* C1: for fixed venue answers the outcome of a symbol (a row or not, and the
\* row's best ask, best bid, ROI and profit) is the same under every order in
\* which the fetches complete: it is the outcome of the submit order.
C1_OrderIndependent ==
    Evaluated => SameOutcome(last, ScanSymbolSeq(Sym, DOMAIN resp, resp, SubmitOrder))

\* C2: scan_symbols_once never raises, whatever the venues answer.
C2_NeverRaises == pc # "raised"

NoAskReturned == \A ex \in DOMAIN resp : ~resp[ex].ok \/ resp[ex].asks = <<>>

NoBidReturned == \A ex \in DOMAIN resp : ~resp[ex].ok \/ resp[ex].bids = <<>>

\* C3: every row has a best-ask venue different from its best-bid venue, and
\* a symbol with no ask returned, no bid returned, or its best ask and best
\* bid on the same venue, produces no row.
C3_CrossVenueRows ==
    /\ \A i \in 1..Len(rows) : rows[i].ask_ex # rows[i].bid_ex
    /\ Evaluated /\ (NoAskReturned \/ NoBidReturned \/ best_ask_ex = best_bid_ex)
         => last.out = "skip"

C3_Witness ==
    /\ Evaluated
    /\ Len(rows) = 1
    /\ symIdx = 2
    /\ ~NoAskReturned /\ ~NoBidReturned
    /\ best_ask_ex = best_bid_ex
    /\ last.out = "skip"

\* C4: when venue V's fetch for the symbol failed, the loop body ends as it
\* does with V not listing the symbol: same outcome, same rows appended to
\* the rows of the earlier symbols, same continuation.
C4_FailedVenueAsUnlisted ==
    [][pc = "collect" /\ pc' # "collect" =>
         \A V \in DOMAIN resp :
            ~resp[V].ok =>
               LET ref == ScanSymbolSeq(Sym, DOMAIN resp \ {V}, resp, order)
               IN  /\ last' = ref
                   /\ rows' = IF ref.out = "row" THEN Append(rows, ref.row) ELSE rows
                   /\ pc' = IF ref.out = "raise" THEN "raised" ELSE "loop"]_vars

C4_Witness ==
    /\ Evaluated
    /\ \E V \in DOMAIN resp : ~resp[V].ok
    /\ last.out = "row"
    /\ Len(rows) = 1

\* the volume a venue reports for a symbol, 0 when it reports none
VenueVolume(ex, sym) ==
    IF tickers[ex].ok /\ tickers[ex].qv[sym] # None THEN tickers[ex].qv[sym] ELSE FZero

\* the limits a venue publishes for a symbol, 0 when the lookup fails
VenueLimits(ex, sym) ==
    IF markets[ex][sym].ok
    THEN MarketLimits(markets[ex][sym].amount, markets[ex][sym].cost)
    ELSE NoLimits

\* the symbol passes the lot filter as the specification words it
LotsPass(sym, b) ==
    LET base == FDiv(size, b.ask_val)
    IN  ~enforce_lots \/
        ~(\/ FLt(base, VenueLimits(b.ask_ex, sym).min_amount)
          \/ FLt(base, VenueLimits(b.bid_ex, sym).min_amount)
          \/ FLt(size, VenueLimits(b.ask_ex, sym).min_cost))

\* the symbol passes the volume filter as the specification words it
VolumePass(sym, b) ==
    ~FGt(min_volume, FZero) \/
    (/\ FGe(VenueVolume(b.ask_ex, sym), min_volume)
     /\ FGe(VenueVolume(b.bid_ex, sym), min_volume))

\* roi = 100 * (bestBid * (size / bestAsk) - size) / size
SpecRoi(ask, bid) ==
    FDiv(FMul(FromInt(100), FSub(FMul(bid, FDiv(size, ask)), size)), size)

SpecProfit(ask, bid) == FSub(FMul(bid, FDiv(size, ask)), size)

\* C5: a symbol that passes the validity gate and the enabled filters gets
\* a row exactly when roi >= threshold, and the row carries that roi and
\* that profit (size > 0; a best ask of 0 still calls for a decision).
C5_RowIffRoiAtLeastThreshold ==
    LET b == CurrentBest
    IN  Evaluated /\ FGt(size, FZero) /\ ValidityGate(b) /\ VolumePass(Sym, b)
        /\ (FIsZero(b.ask_val) => ~enforce_lots)
        /\ (~FIsZero(b.ask_val) => LotsPass(Sym, b))
        => IF FIsZero(b.ask_val) THEN last.out \in {"row", "skip"}
           ELSE /\ last.out = "row" <=> FGe(SpecRoi(b.ask_val, b.bid_val), threshold)
                /\ last.out = "row" =>
                     /\ last.row.roi = SpecRoi(b.ask_val, b.bid_val)
                     /\ last.row.profit = SpecProfit(b.ask_val, b.bid_val)

\* C6: with min_volume > 0 every row's symbol has a reported volume of at
\* least min_volume on the row's ask venue and on its bid venue (no report
\* counting as 0); with min_volume <= 0 the volume filter excludes nothing.
C6_VolumeFloor ==
    /\ FGt(min_volume, FZero) =>
         \A i \in 1..Len(rows) :
            /\ FGe(VenueVolume(rows[i].ask_ex, rows[i].sym), min_volume)
            /\ FGe(VenueVolume(rows[i].bid_ex, rows[i].sym), min_volume)
    /\ LET b == CurrentBest
       IN  Evaluated /\ ~FGt(min_volume, FZero) /\ ValidityGate(b) /\ ~FIsZero(b.ask_val)
           /\ LotsPass(Sym, b) /\ FGe(Roi(b.ask_val, b.bid_val), threshold)
           => last.out = "row"

C6_Witness ==
    /\ FGt(min_volume, FZero)
    /\ Len(rows) = 1
    /\ \E ex \in Venues : FLt(VenueVolume(ex, "S1"), FromInt(3))

\* C7: with lot enforcement on, a symbol is skipped when size / bestAsk is
\* below the minimum amount of the ask venue or of the bid venue, or size is
\* below the ask venue's minimum cost; a limit of 0 (a failed lookup too)
\* excludes nothing, and with enforcement off no limit excludes anything.
C7_LotFilter ==
    LET b == CurrentBest
        base == FDiv(size, b.ask_val)
        below == \/ FLt(base, VenueLimits(b.ask_ex, Sym).min_amount)
                 \/ FLt(base, VenueLimits(b.bid_ex, Sym).min_amount)
                 \/ FLt(size, VenueLimits(b.ask_ex, Sym).min_cost)
    IN  Evaluated /\ ValidityGate(b) /\ ~FIsZero(b.ask_val) =>
           /\ enforce_lots /\ below => last.out = "skip"
           /\ (~enforce_lots \/ ~below) /\ VolumePass(Sym, b)
              /\ FGe(Roi(b.ask_val, b.bid_val), threshold)
              => last.out = "row"

C7_Witness ==
    LET b == CurrentBest
    IN  /\ Evaluated /\ ValidityGate(b) /\ ~FIsZero(b.ask_val)
        /\ enforce_lots
        /\ FGt(size, FZero)
        /\ FGe(Roi(b.ask_val, b.bid_val), threshold)
        /\ ~FLt(FDiv(size, b.ask_val), VenueLimits(b.ask_ex, Sym).min_amount)
        /\ ~FLt(size, VenueLimits(b.ask_ex, Sym).min_cost)
        /\ FLt(FDiv(size, b.ask_val), VenueLimits(b.bid_ex, Sym).min_amount)
        /\ last.out = "skip"

\* C8: at every moment the number of order-book requests in flight is at
\* most the worker limit.
C8_InFlightBounded == Cardinality(running) <= workers

C8_Witness ==
    /\ workers = 2
    /\ Cardinality(running) = 2
    /\ Len(queue) = 1

\* C9: a failed volume fetch leaves the venue an empty volume map, a failed
\* limits lookup leaves zero limits, and neither aborts the cycle: the
\* pre-pass never raises, the loop over the symbols starts after it, and the
\* function returns only after the loop body ran for every symbol.
C9_PrePassBestEffort ==
    /\ pc # "prepass" =>
         \A ex \in Venues :
            /\ ~tickers[ex].ok => ex_vols[ex] = EmptyDict
            /\ \A s \in SymbolSet : ~markets[ex][s].ok => ex_limits[ex][s] = NoLimits
    /\ pc = "raised" => symIdx >= 1 /\ (workers <= 0 \/ FIsZero(best_ask_val))
    /\ pc = "done" => symIdx = Len(symbols)

C9_Witness ==
    /\ pc = "done"
    /\ symIdx = 2
    /\ Len(rows) = 2
    /\ \E ex \in Venues : ~tickers[ex].ok /\ ~markets[ex]["S1"].ok /\ rows[1].ask_ex = ex
    /\ \E ex \in Venues : tickers[ex].ok /\ markets[ex]["S2"].ok

-----------------------------------------------------------------------------
(* Properties of _executable_price                                         *)

Returned(fn) == callPc = "return" /\ callArgs.fn = fn

\* the sum of amount * price over all the levels, added up in book order
RECURSIVE Notional(_, _)
Notional(levels, acc) ==
    IF levels = <<>> THEN acc
    ELSE Notional(Tail(levels), FAdd(acc, FMul(Head(levels).amount, Head(levels).price)))

\* C10: when the requested size (> 0) equals the total amount of the levels
\* of the side walked, _executable_price returns the size-weighted average
\* price of all those levels and does not report insufficient liquidity.
C10_ExactDepthFills ==
    LET levels == SideOf(callArgs.order_book, callArgs.side)
    IN  Returned("_executable_price") /\ FGt(callArgs.size, FZero)
        /\ callArgs.size = TotalAmount(levels)
        => /\ callRet # None
           /\ callRet = FDiv(Notional(levels, FZero), callArgs.size)

\* C11: when the requested size exceeds the total amount of the levels of
\* the side walked (an empty side and a size > 0 included),
\* _executable_price returns no price: never an average, never zero.
C11_BeyondDepthNoPrice ==
    LET levels == SideOf(callArgs.order_book, callArgs.side)
    IN  Returned("_executable_price") /\ FGt(callArgs.size, TotalAmount(levels))
        => callRet = None

-----------------------------------------------------------------------------
(* The two-venue spread strategy: find_cex_cex_opportunity                 *)

IndexError == [raise |-> "IndexError"]

IsRaise(r) == "raise" \in DOMAIN r

\* TradingFees; only the taker rate is read
TradingFees(rate) == [taker_rate |-> rate]

\* Opportunity; the description and the legs are texts and are left out
Opportunity(k, profit, roi) == [kind |-> k, expected_profit_usdt |-> profit, expected_roi_pct |-> roi]

IsOpportunity(r) == "kind" \in DOMAIN r

\* the literal 1e-9 of line 55 (the float nearest to 1 / 10^9)
AskFloor == FDiv(FromInt(1), FromInt(1000000000))

\* faulty variant: the fee is taken off the price on the buy side too
_apply_taker_fee_BuyAsSell(unit_price, sz, fees, side) ==
    FMul(unit_price, FSub(FromInt(1), fees.taker_rate))

\* lines 35-39
_apply_taker_fee(unit_price, sz, fees, side) ==
    IF side = "buy" THEN FMul(unit_price, FAdd(FromInt(1), fees.taker_rate))
    ELSE FMul(unit_price, FSub(FromInt(1), fees.taker_rate))

\* faulty variant: the transfer fee is not deducted
BaseAfterTransfer_NoFee(base_amount, transfer_fee_in_base) == base_amount

\* line 64
BaseAfterTransfer(base_amount, transfer_fee_in_base) ==
    FMax(FSub(base_amount, transfer_fee_in_base), FZero)

\* line 78
RoiPct(profit, cost) ==
    IF FGt(cost, FZero) THEN FMul(FromInt(100), FDiv(profit, cost)) ELSE FZero

\* faulty variant: the threshold is not applied
EmitCexCex_NoThreshold(profit, roi_pct, threshold_pct) ==
    Opportunity("CEX_CEX", profit, roi_pct)

\* lines 80-97
EmitCexCex(profit, roi_pct, threshold_pct) ==
    IF FGe(roi_pct, threshold_pct) THEN Opportunity("CEX_CEX", profit, roi_pct) ELSE None

\* lines 68-97: from the sale on book B on
SellAndEmit(book_b, fees_b, threshold_pct, buy_unit_cost_with_fee, base_amount, base_after_transfer) ==
    LET sell_avg_price_b == _executable_price(book_b, "sell", base_after_transfer)
    IN  IF sell_avg_price_b = None THEN None
        ELSE LET sell_unit_price_with_fee ==
                     _apply_taker_fee(sell_avg_price_b, base_after_transfer, fees_b, "sell")
                 cost_quote == FMul(buy_unit_cost_with_fee, base_amount)
                 proceeds_quote == FMul(sell_unit_price_with_fee, base_after_transfer)
                 profit == FSub(proceeds_quote, cost_quote)
             IN  EmitCexCex(profit, RoiPct(profit, cost_quote), threshold_pct)

\* lines 42-97. book_a.asks[0] raises IndexError for a book without asks;
\* _executable_price raises ZeroDivisionError for a size of 0.0, and so does
\* size_in_quote / buy_avg_price_a for an average price of 0.0
find_cex_cex_opportunity(size_in_quote, book_a, book_b, fees_a, fees_b, threshold_pct, transfer_fee_in_base) ==
    IF book_a.asks = <<>> THEN IndexError
    ELSE LET approx_base_size == FDiv(size_in_quote, FMax(book_a.asks[1].price, AskFloor))
             buy_avg_price_a == _executable_price(book_a, "buy", approx_base_size)
         IN  IF buy_avg_price_a = None THEN None
             ELSE IF IsRaise(buy_avg_price_a) THEN buy_avg_price_a
             ELSE IF FIsZero(buy_avg_price_a) THEN ZeroDivisionError
             ELSE LET base_amount == FDiv(size_in_quote, buy_avg_price_a)
                      buy_unit_cost_with_fee ==
                          _apply_taker_fee(buy_avg_price_a, base_amount, fees_a, "buy")
                      base_after_transfer == BaseAfterTransfer(base_amount, transfer_fee_in_base)
                  IN  IF FLe(base_after_transfer, FZero) THEN None
                      ELSE SellAndEmit(book_b, fees_b, threshold_pct, buy_unit_cost_with_fee,
                                       base_amount, base_after_transfer)

MaxBookLevels == 2

\* the books of the strategy calls: prices 1..MaxPrice, a small or a large
\* amount at the best level and the large one behind it, the asks in
\* ascending and the bids in descending order of price
BookLevels == {PriceLevel(FromInt(p), a) : p \in 1..MaxPrice, a \in {FromInt(1), FromInt(4)}}

BookSides ==
    UNION {{l \in [1..n -> BookLevels] : \A i \in 2..n : l[i].amount = FromInt(4)} : n \in 0..MaxBookLevels}

AskSides == {l \in BookSides : \A i \in 1..(Len(l) - 1) : FLe(l[i].price, l[i + 1].price)}

BidSides == {l \in BookSides : \A i \in 1..(Len(l) - 1) : FGe(l[i].price, l[i + 1].price)}

\* the books of MockDataClient (connectors/mock.py)
MockBookA == OrderBook(<<PriceLevel(FromInt(10010), FromInt(5)), PriceLevel(FromInt(10020), FromInt(10))>>, <<PriceLevel(FromInt(9990), FromInt(5)), PriceLevel(FromInt(9980), FromInt(10))>>)

MockBookB == OrderBook(<<PriceLevel(FromInt(10130), FromInt(5)), PriceLevel(FromInt(10140), FromInt(10))>>, <<PriceLevel(FromInt(10120), FromInt(5)), PriceLevel(FromInt(10110), FromInt(10))>>)

Rate(n, d) == FDiv(FromInt(n), FromInt(d))

\* taker rates of venue A and of venue B
TakerRates == {<<FZero, FZero>>, <<Rate(1, 1000), Rate(1, 100)>>}

SpreadCall(sz, a, b, rates, thr, fee) ==
    [fn |-> "find_cex_cex_opportunity", size_in_quote |-> sz, book_a |-> a, book_b |-> b,
     fees_a |-> TradingFees(rates[1]), fees_b |-> TradingFees(rates[2]),
     threshold_pct |-> thr, transfer_fee_in_base |-> fee]

\* the books of one venue: best bid below best ask
VenueBooks ==
    {book \in {OrderBook(asks, bids) : asks \in AskSides, bids \in BidSides} :
        Len(book.asks) > 0 /\ Len(book.bids) > 0 => FLt(book.bids[1].price, book.asks[1].price)}

\* small books with a notional of 2, the mock books with a notional of 1000
\* (or 0) and the thresholds of the mock scenarios, or one venue's book given
\* as both books
SpreadCalls ==
    {SpreadCall(FromInt(2), book, book, r, thr, FZero) :
        book \in VenueBooks, r \in TakerRates, thr \in {FromInt(-100), Rate(1, 2)}}
    \cup
    {SpreadCall(FromInt(2), OrderBook(asks, <<>>), OrderBook(<<>>, bids), r, thr, fee) :
        asks \in AskSides, bids \in BidSides, r \in TakerRates,
        thr \in {FromInt(-100), Rate(1, 2)}, fee \in {FZero, FromInt(1), FromInt(4)}}
    \cup
    {SpreadCall(sz, MockBookA, MockBookB, r, thr, fee) :
        sz \in {FZero, FromInt(1000)}, r \in TakerRates,
        thr \in {Rate(1, 2), FromInt(5)}, fee \in {FZero, Rate(1, 100)}}

InitSpread ==
    /\ ScanIdle
    /\ callArgs \in SpreadCalls
    /\ callPc = "call"
    /\ callRet = <<>>

FindCexCexOpportunity ==
    /\ callPc = "call"
    /\ callArgs.fn = "find_cex_cex_opportunity"
    /\ callRet' = find_cex_cex_opportunity(callArgs.size_in_quote, callArgs.book_a, callArgs.book_b, callArgs.fees_a, callArgs.fees_b, callArgs.threshold_pct, callArgs.transfer_fee_in_base)
    /\ callPc' = "return"
    /\ UNCHANGED <<callArgs, scanVars>>

NextSpread == FindCexCexOpportunity

SpecSpread == InitSpread /\ [][NextSpread]_vars

\* C12: find_cex_cex_opportunity returns None, and does not raise, whenever
\* book A cannot fill the buy: no ask level at all, or less depth than the
\* quantity size_in_quote / best ask.
C12_NoFillNoOpportunity ==
    LET asks == callArgs.book_a.asks
    IN  Returned("find_cex_cex_opportunity") /\ FGt(callArgs.size_in_quote, FZero)
        /\ (asks = <<>> \/ FGt(FDiv(callArgs.size_in_quote, asks[1].price), TotalAmount(asks)))
        => callRet = None

IsPrice(r) == r # None /\ ~IsRaise(r)

\* the quantities of the strategy as the specification words them, for the
\* call in callArgs: the average buy price on book A for size / best ask,
\* the base quantity bought, what is left of it after the transfer, the
\* average sell price on book B for that, then cost, proceeds, profit, ROI
SpreadBuyAvg ==
    _executable_price(callArgs.book_a, "buy", FDiv(callArgs.size_in_quote, callArgs.book_a.asks[1].price))

SpreadBase == FDiv(callArgs.size_in_quote, SpreadBuyAvg)

SpreadAfter == FSub(SpreadBase, callArgs.transfer_fee_in_base)

SpreadSellAvg == _executable_price(callArgs.book_b, "sell", SpreadAfter)

SpreadCost ==
    FMul(FMul(SpreadBuyAvg, FAdd(FromInt(1), callArgs.fees_a.taker_rate)), SpreadBase)

SpreadProceeds ==
    FMul(FMul(SpreadSellAvg, FSub(FromInt(1), callArgs.fees_b.taker_rate)), SpreadAfter)

SpreadProfit == FSub(SpreadProceeds, SpreadCost)

SpreadRoi == FDiv(FMul(FromInt(100), SpreadProfit), SpreadCost)

\* the buy on book A is priced (size > 0, prices > 0)
SpreadBought ==
    /\ FGt(callArgs.size_in_quote, FZero)
    /\ callArgs.book_a.asks # <<>>
    /\ IsPrice(SpreadBuyAvg)

\* both walks are priced, so that an ROI is computed
SpreadPriced ==
    /\ SpreadBought
    /\ FGt(SpreadAfter, FZero)
    /\ IsPrice(SpreadSellAvg)

\* C13: an opportunity returned by find_cex_cex_opportunity has kind
\* CEX_CEX and an expected ROI >= threshold_pct; when the computed ROI is
\* below threshold_pct the call returns None, as for the mock books with a
\* threshold of 5.0.
C13_OpportunityMeetsThreshold ==
    Returned("find_cex_cex_opportunity") =>
        /\ IsOpportunity(callRet) =>
             /\ callRet.kind = "CEX_CEX"
             /\ FGe(callRet.expected_roi_pct, callArgs.threshold_pct)
        /\ SpreadPriced /\ FLt(SpreadRoi, callArgs.threshold_pct) => callRet = None
        /\ /\ callArgs.book_a = MockBookA /\ callArgs.book_b = MockBookB
           /\ callArgs.size_in_quote = FromInt(1000)
           /\ callArgs.threshold_pct = FromInt(5)
           => callRet = None

C13_Witness ==
    /\ Returned("find_cex_cex_opportunity")
    /\ callArgs.book_a = MockBookA /\ callArgs.book_b = MockBookB
    /\ callArgs.size_in_quote = FromInt(1000)
    /\ callArgs.threshold_pct = Rate(1, 2)
    /\ IsOpportunity(callRet)

\* C14: find_cex_cex_opportunity returns None whenever transfer_fee_in_base
\* is at least the base quantity bought, size_in_quote / buyAvgPrice,
\* whatever the threshold (negative ones included).
C14_FeeAboveQuantityNoOpportunity ==
    /\ Returned("find_cex_cex_opportunity")
    /\ SpreadBought
    /\ FGe(callArgs.transfer_fee_in_base, SpreadBase)
    => callRet = None

\* the fee equals the quantity bought, book B could take the quantity and the
\* threshold is negative
C14_Witness ==
    /\ Returned("find_cex_cex_opportunity")
    /\ SpreadBought
    /\ callArgs.transfer_fee_in_base = SpreadBase
    /\ callArgs.threshold_pct = FromInt(-100)
    /\ IsPrice(_executable_price(callArgs.book_b, "sell", SpreadBase))
    /\ callRet = None

FAbs(x) == F(FALSE, x.mag)

\* x and y are the same number up to float rounding: they differ by at most
\* 2^-RoundingSlack of y
RoundingSlack == 40

Close(x, y) == FLe(FAbs(FSub(x, y)), FMul(Dyadic(1, 0 - RoundingSlack), FAbs(y)))

SamePricesMoved(from, to, dir) ==
    /\ Len(to) = Len(from)
    /\ \A i \in 1..Len(from) :
        /\ to[i].amount = from[i].amount
        /\ IF dir < 0 THEN FLe(to[i].price, from[i].price) ELSE FGe(to[i].price, from[i].price)

\* the calls that differ from the call c by a wider gap: lower ask prices on
\* book A and/or higher bid prices on book B, everything else as in c
Widenings(c) ==
    {[c EXCEPT !.book_a = OrderBook(asks, c.book_a.bids), !.book_b = OrderBook(c.book_b.asks, bids)] :
        asks \in {l \in AskSides : SamePricesMoved(c.book_a.asks, l, -1)},
        bids \in {l \in BidSides : SamePricesMoved(c.book_b.bids, l, 1)}}

SpreadResult(c) ==
    find_cex_cex_opportunity(c.size_in_quote, c.book_a, c.book_b, c.fees_a, c.fees_b, c.threshold_pct, c.transfer_fee_in_base)

\* C16: an opportunity returned for two books is still returned, with an ROI
\* at least as large, after any widening of the gap (lower ask prices on A,
\* higher bid prices on B; size, fees, transfer fee, threshold and amounts
\* unchanged).
C16_WideningKeepsOpportunity ==
    Returned("find_cex_cex_opportunity") /\ IsOpportunity(callRet) =>
        \A w \in Widenings(callArgs) :
            /\ IsOpportunity(SpreadResult(w))
            /\ FGe(SpreadResult(w).expected_roi_pct, callRet.expected_roi_pct)

\* C17: find_cex_cex_opportunity never yields an opportunity when one order
\* book is given as both book A and book B (the claim says it returns None;
\* what is checked here is the weaker part, that no opportunity comes back).
C17_SameBookNoOpportunity ==
    Returned("find_cex_cex_opportunity") /\ callArgs.book_a = callArgs.book_b => ~IsOpportunity(callRet)

-----------------------------------------------------------------------------
(* The multi-leg path: plan_multi_leg_path (strategies/multi_leg.py)       *)

\* a P2P quote; of its fields only the price is read
P2PQuote(price) == [price |-> price]

\* faulty variant: the taker fee of the sell is not charged
SellUnitAfterFee_NoFee(spot_sell_price, spot_sell_fees) == spot_sell_price

\* line 48
SellUnitAfterFee(spot_sell_price, spot_sell_fees) ==
    FMul(spot_sell_price, FSub(FromInt(1), spot_sell_fees.taker_rate))

\* lines 49-73: the sale of what arrived, compared with the fiat paid
SellMultiLeg(asset_amount_after_transfer, spot_sell_price, spot_sell_fees, size_in_fiat) ==
    LET sell_unit_after_fee == SellUnitAfterFee(spot_sell_price, spot_sell_fees)
        proceeds_fiat == FMul(sell_unit_after_fee, asset_amount_after_transfer)
        cost_fiat == size_in_fiat
        profit_fiat == FSub(proceeds_fiat, cost_fiat)
        roi_pct == IF FGt(cost_fiat, FZero) THEN FMul(FromInt(100), FDiv(profit_fiat, cost_fiat))
                   ELSE FZero
    IN  IF FLe(roi_pct, FZero) THEN None
        ELSE Opportunity("Multi_Leg", profit_fiat, roi_pct)

\* lines 17-73. size_in_fiat / p2p_buy.price raises ZeroDivisionError for a
\* quote with a price of 0.0
plan_multi_leg_path(p2p_buy, spot_buy_price, spot_buy_fees, transfer_fee_asset, spot_sell_price, spot_sell_fees, size_in_fiat) ==
    IF p2p_buy = None \/ spot_buy_price = None \/ spot_sell_price = None THEN None
    ELSE IF FIsZero(p2p_buy.price) THEN ZeroDivisionError
    ELSE LET asset_amount_after_p2p == FDiv(size_in_fiat, p2p_buy.price)
             asset_amount_after_transfer ==
                 FMax(FSub(asset_amount_after_p2p, transfer_fee_asset), FZero)
         IN  IF FLe(asset_amount_after_transfer, FZero) THEN None
             ELSE SellMultiLeg(asset_amount_after_transfer, spot_sell_price, spot_sell_fees, size_in_fiat)

\* the calls of the planner: a quote or none, a spot buy price or none (the
\* command line passes none), a sell price or none, and the scenario of the
\* mock data (quote 1.01, sell 1.03, taker 0.001, fee 1, size 1000)
P2PBuys == {None} \cup {P2PQuote(p) : p \in {FZero, Rate(101, 100)} \cup {FromInt(n) : n \in 1..MaxPrice}}

SpotBuyPrices == {None, FromInt(1)}

SpotSellPrices == {None, Rate(103, 100)} \cup {FromInt(n) : n \in 1..(MaxPrice + 1)}

MultiLegCalls ==
    {[fn |-> "plan_multi_leg_path", p2p_buy |-> q, spot_buy_price |-> sb,
      spot_buy_fees |-> TradingFees(FZero), transfer_fee_asset |-> fee, spot_sell_price |-> ss,
      spot_sell_fees |-> TradingFees(r), size_in_fiat |-> sz] :
        q \in P2PBuys, sb \in SpotBuyPrices, ss \in SpotSellPrices, r \in {FZero, Rate(1, 1000)},
        fee \in {FZero, FromInt(1), FromInt(4)}, sz \in {FZero, FromInt(2), FromInt(1000)}}

InitMultiLeg ==
    /\ ScanIdle
    /\ callArgs \in MultiLegCalls
    /\ callPc = "call"
    /\ callRet = <<>>

PlanMultiLegPath ==
    /\ callPc = "call"
    /\ callArgs.fn = "plan_multi_leg_path"
    /\ callRet' = plan_multi_leg_path(callArgs.p2p_buy, callArgs.spot_buy_price, callArgs.spot_buy_fees, callArgs.transfer_fee_asset, callArgs.spot_sell_price, callArgs.spot_sell_fees, callArgs.size_in_fiat)
    /\ callPc' = "return"
    /\ UNCHANGED <<callArgs, scanVars>>

NextMultiLeg == PlanMultiLegPath

SpecMultiLeg == InitMultiLeg /\ [][NextMultiLeg]_vars

\* what the specification computes for the planner's arguments
MultiLegAfterTransfer ==
    FMax(FSub(FDiv(callArgs.size_in_fiat, callArgs.p2p_buy.price), callArgs.transfer_fee_asset), FZero)

MultiLegProceeds ==
    FMul(FMul(callArgs.spot_sell_price, FSub(FromInt(1), callArgs.spot_sell_fees.taker_rate)),
         FSub(FDiv(callArgs.size_in_fiat, callArgs.p2p_buy.price), callArgs.transfer_fee_asset))

MultiLegProfit == FSub(MultiLegProceeds, callArgs.size_in_fiat)

MultiLegRoi == FDiv(FMul(FromInt(100), MultiLegProfit), callArgs.size_in_fiat)

\* x is y up to the relative tolerance tol
WithinRel(x, y, tol) == FLe(FAbs(FSub(x, y)), FMul(tol, FAbs(y)))

\* quote 1.01, sell price 1.03, taker rate 0.001, transfer fee 1, size 1000
MockMultiLegScenario ==
    /\ callArgs.p2p_buy = P2PQuote(Rate(101, 100))
    /\ callArgs.spot_sell_price = Rate(103, 100)
    /\ callArgs.spot_sell_fees = TradingFees(Rate(1, 1000))
    /\ callArgs.transfer_fee_asset = FromInt(1)
    /\ callArgs.size_in_fiat = FromInt(1000)

\* C18: for the quote 1.01, the sell price 1.03, the taker rate 0.001, the
\* transfer fee 1 and the size 1000, plan_multi_leg_path returns a Multi_Leg
\* opportunity whose proceeds (profit plus the fiat paid), profit and ROI are
\* 1017.88, 17.88 and 1.79 within a relative tolerance of 1e-3.
C18_MockMultiLegNumbers ==
    Returned("plan_multi_leg_path") /\ MockMultiLegScenario =>
        /\ IsOpportunity(callRet)
        /\ callRet.kind = "Multi_Leg"
        /\ WithinRel(FAdd(callRet.expected_profit_usdt, callArgs.size_in_fiat), Rate(101788, 100), Rate(1, 1000))
        /\ WithinRel(callRet.expected_profit_usdt, Rate(1788, 100), Rate(1, 1000))
        /\ WithinRel(callRet.expected_roi_pct, Rate(179, 100), Rate(1, 1000))

\* C19: the profit of a returned opportunity is spotSellPrice * (1 -
\* takerRate) * (fiatSize / p2pPrice - transferFeeAsset) - fiatSize and its
\* ROI is 100 * profit / fiatSize (up to float rounding).
C19_MultiLegProfitAndRoi ==
    Returned("plan_multi_leg_path") /\ IsOpportunity(callRet) =>
        /\ callRet.expected_profit_usdt = MultiLegProfit
        /\ Close(callRet.expected_roi_pct, MultiLegRoi)

\* an opportunity with a taker fee and a transfer fee on a quote above par
C19_Witness ==
    /\ Returned("plan_multi_leg_path") /\ IsOpportunity(callRet)
    /\ MockMultiLegScenario
    /\ callRet.expected_profit_usdt = MultiLegProfit
    /\ FGt(callRet.expected_profit_usdt, FromInt(17)) /\ FLt(callRet.expected_profit_usdt, FromInt(18))

\* the asset amount after the transfer fee is > 0 and the ROI is > 0
MultiLegProfitable ==
    /\ ~FIsZero(callArgs.p2p_buy.price)
    /\ FGt(MultiLegAfterTransfer, FZero)
    /\ ~FIsZero(callArgs.size_in_fiat)
    /\ FGt(MultiLegRoi, FZero)

\* C20: given a quote and a spot sell price, plan_multi_leg_path returns a
\* Multi_Leg opportunity exactly when the asset amount after the transfer fee
\* is > 0 and the ROI is strictly > 0; otherwise it returns None.
C20_OpportunityIffPositiveRoi ==
    /\ Returned("plan_multi_leg_path")
    /\ callArgs.p2p_buy # None
    /\ callArgs.spot_sell_price # None
    => IF MultiLegProfitable THEN IsOpportunity(callRet) /\ callRet.kind = "Multi_Leg"
       ELSE ~IsOpportunity(callRet)

\* C21: the result of plan_multi_leg_path does not depend on spot_buy_price
\* (none included) nor on spot_buy_fees: the same call with any other spot
\* buy price and spot buy fees returns the same outcome.
C21_SpotBuyInputsIrrelevant ==
    Returned("plan_multi_leg_path") =>
        \A sb \in SpotBuyPrices, r \in {FZero, Rate(1, 1000)} :
            plan_multi_leg_path(callArgs.p2p_buy, sb, TradingFees(r), callArgs.transfer_fee_asset, callArgs.spot_sell_price, callArgs.spot_sell_fees, callArgs.size_in_fiat) = callRet

-----------------------------------------------------------------------------
(* The two-venue live scanner: main of ui/scan.py. callArgs is the parsed  *)
(* argument namespace (args); symbols, ex_vols (vols_a and vols_b under    *)
(* the venue ids a and b), rows, pc and symIdx are the locals of main;     *)
(* resp is the history of the cycle, symbol by symbol.                     *)

\* lines 52-71: t is [ok |-> FALSE] when fetch_tickers raised both times,
\* else for each symbol its quoteVolume or None
fetch_quote_volumes(t) ==
    IF t.ok
    THEN [s \in {x \in SymbolSet : t.qv[x] # None} |-> t.qv[s]]
    ELSE EmptyDict

\* seq[:n] for n >= 0
Take(seq, n) == SubSeq(seq, 1, IF n < Len(seq) THEN n ELSE Len(seq))

\* lines 130-135
VolumeFiltered(syms, vols_a, vols_b, min) ==
    LET Keep(sym) == /\ FGe(Get(vols_a, sym, FZero), min)
                     /\ FGe(Get(vols_b, sym, FZero), min)
    IN  SelectSeq(syms, Keep)

\* lines 127-138: `filtered or symbols` is symbols when filtered is empty
SymbolsToScan(syms, vols_a, vols_b, args) ==
    IF FGt(args.min_volume, FZero)
    THEN LET filtered == VolumeFiltered(syms, vols_a, vols_b, args.min_volume)
         IN  Take(IF filtered # <<>> THEN filtered ELSE syms, args.limit)
    ELSE Take(syms, args.limit)

LiveRow(sym, ask_a, bid_b, roi, profit) ==
    [sym |-> sym, ask_a |-> ask_a, bid_b |-> bid_b, roi |-> roi, profit |-> profit]

\* what the loop body of one symbol did: a fetch or the strategy raised,
\* a side was empty, or find_cex_cex_opportunity returned opp
LiveRaised == [out |-> "raise"]

LiveEmpty == [out |-> "empty"]

LiveReturned(opp) == [out |-> "returned", opp |-> opp]

\* lines 145-160: the outcome of the fetches and of the strategy call
LiveOutcome(book_a, book_b, fees_a, fees_b, args) ==
    IF ~book_a.ok \/ ~book_b.ok THEN LiveRaised
    ELSE IF book_a.asks = <<>> \/ book_b.bids = <<>> THEN LiveEmpty
    ELSE LET opp == find_cex_cex_opportunity(args.size, book_a, book_b, fees_a, fees_b, args.threshold, args.transfer_fee)
         IN  IF IsRaise(opp) THEN LiveRaised ELSE LiveReturned(opp)

\* lines 161-166: without an opportunity the ROI and the profit read 0.0
LiveRows(sym, book_a, book_b, o, args) ==
    IF o.out # "returned" THEN <<>>
    ELSE LET roi == IF IsOpportunity(o.opp) THEN o.opp.expected_roi_pct ELSE FZero
             profit == IF IsOpportunity(o.opp) THEN o.opp.expected_profit_usdt ELSE FZero
         IN  IF FGe(roi, args.threshold)
             THEN <<LiveRow(sym, book_a.asks[1].price, book_b.bids[1].price, roi, profit)>>
             ELSE <<>>

\* rows.sort(key=lambda r: r[3], reverse=True): stable, the ROI descending
RECURSIVE SortByRoiDesc(_)
SortByRoiDesc(rs) ==
    IF rs = <<>> THEN <<>>
    ELSE LET sorted == SortByRoiDesc(SubSeq(rs, 1, Len(rs) - 1))
             r == rs[Len(rs)]
             k == Cardinality({i \in 1..Len(sorted) : FGe(sorted[i].roi, r.roi)})
         IN  SubSeq(sorted, 1, k) \o <<r>> \o SubSeq(sorted, k + 1, Len(sorted))

\* the parsed arguments of main (lines 93-99)
LiveArgs(sz, thr, fee, min, lim, top) ==
    [fn |-> "main", size |-> sz, threshold |-> thr, transfer_fee |-> fee, min_volume |-> min,
     limit |-> lim, top |-> top]

\* what venue a answers to fetch_order_book: it raises, or a book with at
\* most one ask level (its bids are not read)
LiveBooksA == {FetchFailed} \cup {OrderBook(l, <<>>) : l \in {x \in AskSides : Len(x) <= 1}}

\* what venue b answers: it raises, or a book with at most one bid level
\* (its asks are not read)
LiveBooksB == {FetchFailed} \cup {OrderBook(<<>>, l) : l \in {x \in BidSides : Len(x) <= 1}}

\* fetch_trading_fees of connectors/cex.py: the default taker rate 0.001
\* when the venue has no fee API
DefaultTakerRates == <<Rate(1, 1000), Rate(1, 1000)>>

\* each symbol's quoteVolume on a venue: 1 or 2 symbol by symbol, or none
\* at all
LiveTickers ==
    {TickersFailed, Tickers([sym \in SymbolSet |-> None])} \cup {Tickers(q) : q \in [SymbolSet -> {FromInt(1), FromInt(2)}]}

\* the volume filter on with every ticker answer, or the filter off with
\* every threshold, limit and top
InitLive ==
    /\ clients = <<"a", "b">>
    /\ symbols \in {<<>>, <<"S1", "S2">>}
    /\ \/ /\ callArgs = LiveArgs(FromInt(2), Rate(1, 2), FZero, FromInt(2), 2, 2)
          /\ tickers \in [Venues -> LiveTickers]
       \/ /\ callArgs \in {LiveArgs(FromInt(2), thr, FZero, FZero, lim, top) :
                              thr \in {FromInt(-1), FZero, Rate(1, 2)}, lim \in 1..2, top \in 1..2}
          /\ tickers = [ex \in Venues |-> TickersFailed]
    /\ callPc = "call"
    /\ callRet = <<>>
    /\ pc = "main"
    /\ symIdx = 0
    /\ ex_vols = [k \in {} |-> EmptyDict]
    /\ rows = <<>>
    /\ resp = <<>>
    /\ last = NotYet
    /\ ex_symbols = <<>>
    /\ size = FZero
    /\ threshold = FZero
    /\ workers = 0
    /\ min_volume = FZero
    /\ enforce_lots = FALSE
    /\ markets = <<>>
    /\ exIdx = 1
    /\ ex_limits = <<>>
    /\ best_ask_val = None
    /\ best_ask_ex = NoEx
    /\ best_bid_val = None
    /\ best_bid_ex = NoEx
    /\ queue = <<>>
    /\ running = {}
    /\ finished = {}
    /\ order = <<>>

liveFrame == <<clients, ex_symbols, size, threshold, workers, min_volume, enforce_lots, tickers, markets, exIdx, ex_limits, bestVars, queue, running, finished, order, callArgs>>

\* lines 121-138: no common symbol ends main with 1; else the volume
\* filter (when --min-volume > 0) and the limit
PrepareSymbols ==
    /\ pc = "main"
    /\ IF symbols = <<>>
       THEN /\ pc' = "exit"
            /\ callPc' = "return"
            /\ callRet' = 1
            /\ UNCHANGED <<symbols, ex_vols>>
       ELSE /\ ex_vols' = IF FGt(callArgs.min_volume, FZero)
                          THEN [ex \in Venues |-> fetch_quote_volumes(tickers[ex])]
                          ELSE ex_vols
            /\ symbols' = SymbolsToScan(symbols, Get(ex_vols', "a", EmptyDict), Get(ex_vols', "b", EmptyDict), callArgs)
            /\ pc' = "cycle"
            /\ UNCHANGED <<callPc, callRet>>
    /\ UNCHANGED <<liveFrame, symIdx, rows, resp, last>>

\* lines 143-168: the loop body for the next symbol, the venues answering
\* book_a and book_b and charging the taker rates r
ScanLiveSymbol(book_a, book_b, r) ==
    /\ pc = "cycle"
    /\ symIdx < Len(symbols)
    /\ symIdx' = symIdx + 1
    /\ \E sym \in {symbols[symIdx + 1]},
          o \in {LiveOutcome(book_a, book_b, TradingFees(r[1]), TradingFees(r[2]), callArgs)} :
           /\ rows' = rows \o LiveRows(sym, book_a, book_b, o, callArgs)
           /\ resp' = [k \in DOMAIN resp \cup {sym} |-> IF k = sym THEN o ELSE resp[k]]
           /\ last' = o
    /\ UNCHANGED <<liveFrame, symbols, ex_vols, pc, callPc, callRet>>

\* lines 169-171: the table of the cycle
Display ==
    /\ pc = "cycle"
    /\ symIdx = Len(symbols)
    /\ rows' = Take(SortByRoiDesc(rows), callArgs.top)
    /\ pc' = "displayed"
    /\ UNCHANGED <<liveFrame, symbols, ex_vols, symIdx, resp, last, callPc, callRet>>

\* lines 141-142 and 172: the next cycle
NextCycle ==
    /\ pc = "displayed"
    /\ rows' = <<>>
    /\ symIdx' = 0
    /\ resp' = <<>>
    /\ last' = NotYet
    /\ pc' = "cycle"
    /\ UNCHANGED <<liveFrame, symbols, ex_vols, callPc, callRet>>

NextLive ==
    \/ PrepareSymbols
    \/ \E book_a \in LiveBooksA, book_b \in LiveBooksB : ScanLiveSymbol(book_a, book_b, DefaultTakerRates)
    \/ Display
    \/ NextCycle

SpecLive == InitLive /\ [][NextLive]_vars

\* the symbols found before the volume filter and their fetched volumes
LiveVolume(ex, sym) == Get(fetch_quote_volumes(tickers[ex]), sym, FZero)

\* C22: with --min-volume > 0 only symbols whose fetched 24h quote volume is
\* at least the minimum on both venues are scanned or displayed.
C22_OnlyLiquidSymbolsScanned ==
    FGt(callArgs.min_volume, FZero) /\ pc \in {"cycle", "displayed"} =>
        \A sym \in DOMAIN resp \cup {rows[i].sym : i \in 1..Len(rows)} :
            /\ FGe(LiveVolume("a", sym), callArgs.min_volume)
            /\ FGe(LiveVolume("b", sym), callArgs.min_volume)

\* C29: every row displayed in a cycle carries the ROI and the profit of an
\* opportunity that find_cex_cex_opportunity returned for the row's symbol in
\* that cycle; a symbol for which it returned None, or whose fetch raised,
\* has no row.
C29_DisplayedRowsAreOpportunities ==
    pc = "displayed" =>
        \A i \in 1..Len(rows) :
            LET o == resp[rows[i].sym]
            IN  /\ o.out = "returned"
                /\ IsOpportunity(o.opp)
                /\ rows[i].roi = o.opp.expected_roi_pct
                /\ rows[i].profit = o.opp.expected_profit_usdt

-----------------------------------------------------------------------------
(* The scan cycle, continued                                               *)

\* every future of the current symbol was yielded by as_completed
AllCollected == pc = "collect" /\ queue = <<>> /\ running = {} /\ finished = {}

\* the venues that list the current symbol
Listing == {ex \in Venues : Sym \in Get(ex_symbols, ex, {})}

\* the ask (i = 1) or bid (i = 2) prices the venues returned for the symbol
Quoted(i) == {fetch_best_levels(resp[ex])[i] : ex \in DOMAIN resp} \ {None}

\* C23: once every response of a symbol was processed, the best ask is the
\* minimum ask among the venues that list the symbol and returned one, the
\* best bid the maximum bid, and the recorded venues quoted them (no tracker
\* is set when no venue returned that side).
C23_BestOfResponses ==
    AllCollected =>
        /\ DOMAIN resp = Listing
        /\ IF Quoted(1) = {} THEN best_ask_val = None /\ best_ask_ex = NoEx
           ELSE /\ best_ask_val \in Quoted(1)
                /\ \A a \in Quoted(1) : FLe(best_ask_val, a)
                /\ best_ask_ex \in Listing
                /\ fetch_best_levels(resp[best_ask_ex])[1] = best_ask_val
        /\ IF Quoted(2) = {} THEN best_bid_val = None /\ best_bid_ex = NoEx
           ELSE /\ best_bid_val \in Quoted(2)
                /\ \A b \in Quoted(2) : FGe(best_bid_val, b)
                /\ best_bid_ex \in Listing
                /\ fetch_best_levels(resp[best_bid_ex])[2] = best_bid_val

\* three venues answered; the second arrival brought the lowest ask and
\* the third the highest bid
C23_Witness ==
    /\ AllCollected
    /\ Len(order) = 3
    /\ Cardinality(Quoted(1)) >= 2 /\ Cardinality(Quoted(2)) = 3
    /\ best_ask_ex = order[2] /\ best_bid_ex = order[3]

-----------------------------------------------------------------------------
(* Properties of _executable_price, continued                              *)

\* the walk of the specification in exact arithmetic: min(levelAmount,
\* remaining) taken from each level in listed order until nothing remains;
\* the result is the sum of take * levelPrice
RECURSIVE ExactNotional(_, _, _)
ExactNotional(levels, remaining, acc) ==
    IF levels = <<>> \/ FLe(remaining, FZero) THEN acc
    ELSE LET level == Head(levels)
             take  == FMin(level.amount, remaining)
         IN  ExactNotional(Tail(levels), XAdd(remaining, FNeg(take)), XAdd(acc, XMul(take, level.price)))

\* C24: for a size > 0 within the depth of the side walked (the asks for a
\* buy, the bids for a sell), _executable_price returns the sum of
\* min(levelAmount, remaining) * levelPrice over the levels in listed order,
\* divided by the size (up to float rounding), whatever the other side holds.
C24_WalkGivesWeightedAverage ==
    LET levels == SideOf(callArgs.order_book, callArgs.side)
        alone  == IF callArgs.side = "buy" THEN OrderBook(levels, <<>>) ELSE OrderBook(<<>>, levels)
    IN  Returned("_executable_price") /\ FGt(callArgs.size, FZero)
        /\ FLe(callArgs.size, TotalAmount(levels))
        => /\ IsPrice(callRet)
           /\ Close(callRet, FDiv(FRound(ExactNotional(levels, callArgs.size, FZero)), callArgs.size))
           /\ callRet = _executable_price(alone, callArgs.side, callArgs.size)

-----------------------------------------------------------------------------
(* Properties of the scan cycle, continued                                 *)

\* the venues with an order-book request of the current symbol waiting for
\* a thread, in flight, or answered
Requested == Range(queue) \cup running \cup DOMAIN resp

\* no venue has two requests for the current symbol: none is twice in the
\* queue, and none is at two stages at once
OneRequestEach ==
    /\ \A i, j \in 1..Len(queue) : queue[i] = queue[j] => i = j
    /\ Range(queue) \cap running = {}
    /\ Range(queue) \cap DOMAIN resp = {}
    /\ running \cap DOMAIN resp = {}

\* C25: in one cycle each symbol gets exactly one order-book request to
\* each venue that lists it and none to another venue, a failed one
\* included: requests go to listing venues only and never twice, every
\* listing venue was asked when the symbol's futures are all yielded, and
\* the cycle ends only after the last symbol had its requests.
C25_OneRequestPerListingVenue ==
    /\ pc \in {"submit", "collect"} => Requested \subseteq Listing /\ OneRequestEach
    /\ AllCollected => DOMAIN resp = Listing /\ Range(order) = Listing /\ Len(order) = Cardinality(Listing)
    /\ pc \in {"done", "raised"} /\ symbols # <<>> => symIdx = Len(symbols) /\ DOMAIN resp = Listing

\* a step of a pool thread: it takes a work item or ends one
WorkerStep == running' # running

\* what the coordinating thread alone writes
coordVars == <<inputVars, pc, symIdx, exIdx, ex_vols, ex_limits, bestVars, rows, order, last>>

\* C26: no variable is written by two threads. A pool thread only returns
\* its (ask, bid) pair: its steps leave the trackers, the rows and every
\* other local of the coordinating thread unchanged and never touch another
\* venue's result; and no completion order loses an update: once every
\* future was yielded the trackers are the fold of all the results.
C26_WorkersWriteNothingShared ==
    /\ [][WorkerStep =>
            /\ UNCHANGED coordVars
            /\ \A ex \in DOMAIN resp : ex \in DOMAIN resp' /\ resp'[ex] = resp[ex]]_vars
    /\ [](AllCollected => CurrentBest = FoldBest(NoBest, resp, order))

\* one future yielded and folded, one completed and not yet yielded, one
\* still in flight
C26_Witness ==
    /\ pc = "collect"
    /\ Len(order) = 1 /\ Cardinality(finished) = 1 /\ Cardinality(running) = 1
    /\ best_ask_val # None
    /\ fetch_best_levels(resp[CHOOSE ex \in finished : TRUE])[1] # None

-----------------------------------------------------------------------------
(* The strategy functions run on the caller's objects. A call is kept in   *)
(* callArgs: heap holds the caller's objects (books, price levels, fee     *)
(* schedules, the P2P quote) under their references, glob the module-level *)
(* names a function could assign (the modules assign none), args the       *)
(* arguments (references to objects, or floats and strings), and stack the *)
(* frames of the functions running, the innermost first. A frame has its   *)
(* function, its position, the caller's local that receives its result,   *)
(* and its locals.                                                         *)

\* the reference of an object: its name and, for a price level, its place
Ref(name, i) == <<name, i>>

\* the objects of one OrderBook: the book with its two lists of references,
\* and the PriceLevel objects
HeapOfBook(book, asks, bids, ob) ==
    (Ref(book, 0) :> [asks |-> [i \in 1..Len(ob.asks) |-> Ref(asks, i)],
                      bids |-> [i \in 1..Len(ob.bids) |-> Ref(bids, i)]])
    @@ [r \in {Ref(asks, i) : i \in 1..Len(ob.asks)} |-> ob.asks[r[2]]]
    @@ [r \in {Ref(bids, i) : i \in 1..Len(ob.bids)} |-> ob.bids[r[2]]]

NoGlobals == [k \in {} |-> None]

StoredCall(fn, heap, args) ==
    [fn |-> fn, heap |-> heap, glob |-> NoGlobals, args |-> args, stack |-> <<>>]

\* _executable_price(order_book, side, size)
StoredPriceCall(ob, sd, sz) ==
    StoredCall("_executable_price", HeapOfBook("book", "asks", "bids", ob),
               [order_book |-> Ref("book", 0), side |-> sd, size |-> sz])

\* _apply_taker_fee(unit_price, size, fees, side)
StoredFeeCall(p, sz, fees, sd) ==
    StoredCall("_apply_taker_fee", Ref("fees", 0) :> fees,
               [unit_price |-> p, size |-> sz, fees |-> Ref("fees", 0), side |-> sd])

\* find_cex_cex_opportunity with two book objects, or with one book object
\* passed as book_a and as book_b
StoredSpreadCall(c, shared) ==
    StoredCall("find_cex_cex_opportunity",
               HeapOfBook("book_a", "a.asks", "a.bids", c.book_a)
               @@ (IF shared THEN <<>> ELSE HeapOfBook("book_b", "b.asks", "b.bids", c.book_b))
               @@ (Ref("fees_a", 0) :> c.fees_a) @@ (Ref("fees_b", 0) :> c.fees_b),
               [size_in_quote |-> c.size_in_quote, book_a |-> Ref("book_a", 0),
                book_b |-> IF shared THEN Ref("book_a", 0) ELSE Ref("book_b", 0),
                fees_a |-> Ref("fees_a", 0), fees_b |-> Ref("fees_b", 0),
                threshold_pct |-> c.threshold_pct,
                transfer_fee_in_base |-> c.transfer_fee_in_base])

\* plan_multi_leg_path with a P2PQuote object or None
StoredPlanCall(c) ==
    StoredCall("plan_multi_leg_path",
               (IF c.p2p_buy = None THEN <<>> ELSE Ref("p2p", 0) :> c.p2p_buy)
               @@ (Ref("buy_fees", 0) :> c.spot_buy_fees) @@ (Ref("sell_fees", 0) :> c.spot_sell_fees),
               [p2p_buy |-> IF c.p2p_buy = None THEN None ELSE Ref("p2p", 0),
                spot_buy_price |-> c.spot_buy_price, spot_buy_fees |-> Ref("buy_fees", 0),
                transfer_fee_asset |-> c.transfer_fee_asset, spot_sell_price |-> c.spot_sell_price,
                spot_sell_fees |-> Ref("sell_fees", 0), size_in_fiat |-> c.size_in_fiat])

\* the spread calls run on objects: venue A without fee, and one venue's
\* book as both books under the negative threshold
StoredSpreadCalls ==
    {c \in SpreadCalls : /\ c.fees_a.taker_rate = FZero
                         /\ \/ c.threshold_pct = Rate(1, 2)
                            \/ c.book_a = c.book_b}

InitRepeat ==
    /\ ScanIdle
    /\ callPc = "call"
    /\ callRet = <<>>
    /\ \/ \E sd \in {"buy", "sell"}, walked \in SideSeqs :
            \E sz \in SizesFor(walked) :
               callArgs = StoredPriceCall(IF sd = "buy" THEN OrderBook(walked, <<>>) ELSE OrderBook(<<>>, walked), sd, sz)
       \/ \E p \in Prices, r \in {FZero, Rate(1, 1000)}, sd \in {"buy", "sell"} :
            callArgs = StoredFeeCall(p, FromInt(2), TradingFees(r), sd)
       \/ \E c \in StoredSpreadCalls, shared \in BOOLEAN :
            /\ shared => c.book_a = c.book_b
            /\ callArgs = StoredSpreadCall(c, shared)
       \/ \E c \in MultiLegCalls : callArgs = StoredPlanCall(c)

Frame(fn, dst, loc) == [fn |-> fn, pc |-> "start", dst |-> dst, loc |-> loc]

Top == Head(callArgs.stack)

\* the innermost frame is in fn at the position at
At(fn, at) == callPc = "run" /\ Top.fn = fn /\ Top.pc = at

\* the objects read through a reference
Obj(ref) == callArgs.heap[ref]

\* the innermost frame goes on at the position at with the locals loc
Goto(at, loc) ==
    /\ callArgs' = [callArgs EXCEPT !.stack = <<[Top EXCEPT !.pc = at, !.loc = loc]>> \o Tail(@)]
    /\ UNCHANGED <<callPc, callRet, scanVars>>

\* the innermost frame calls: it waits at the position at for the result
\* of callee
Call(at, loc, callee) ==
    /\ callArgs' = [callArgs EXCEPT !.stack = <<callee, [Top EXCEPT !.pc = at, !.loc = loc]>> \o Tail(@)]
    /\ UNCHANGED <<callPc, callRet, scanVars>>

\* an exception: no function here catches any, it reaches the caller
Raise(e) ==
    /\ callArgs' = [callArgs EXCEPT !.stack = <<>>]
    /\ callRet' = e
    /\ callPc' = "return"
    /\ UNCHANGED scanVars

\* return v: into the local dst of the frame below, or to the caller
Return(v) ==
    IF Len(callArgs.stack) = 1 THEN Raise(v)
    ELSE LET caller == callArgs.stack[2]
         IN  /\ callArgs' = [callArgs EXCEPT !.stack =
                    <<[caller EXCEPT !.loc = (Top.dst :> v) @@ @]>> \o SubSeq(@, 3, Len(@))]
             /\ UNCHANGED <<callPc, callRet, scanVars>>

\* the caller makes the call: the parameters are bound to the arguments
Invoke ==
    /\ callPc = "call"
    /\ "stack" \in DOMAIN callArgs
    /\ callArgs' = [callArgs EXCEPT !.stack = <<Frame(callArgs.fn, "", callArgs.args)>>]
    /\ callPc' = "run"
    /\ UNCHANGED <<callRet, scanVars>>

\* simple_spread.py lines 9-10 (23): remaining = size; cost = 0.0 (the
\* proceeds of the sell side are kept in cost too); i is the place of the
\* for loop in the list
WalkStart ==
    /\ At("_executable_price", "start")
    /\ Goto("loop", ("remaining" :> Top.loc["size"]) @@ ("cost" :> FZero) @@ ("i" :> 0) @@ Top.loc)

\* the list the loop of lines 12 (24) walks, read from the book object
WalkedList == IF Top.loc["side"] = "buy" THEN Obj(Top.loc["order_book"]).asks ELSE Obj(Top.loc["order_book"]).bids

\* faulty variant: the amount taken is taken off the level of the book
WalkLevel_ConsumesLevel ==
    /\ At("_executable_price", "loop")
    /\ Top.loc["i"] < Len(WalkedList)
    /\ \E level \in {WalkedList[Top.loc["i"] + 1]} :
       \E take \in {FMin(Obj(level).amount, Top.loc["remaining"])} :
       \E cost \in {FAdd(Top.loc["cost"], FMul(take, Obj(level).price))},
          remaining \in {FSub(Top.loc["remaining"], take)} :
            /\ callArgs' = [callArgs EXCEPT
                  !.heap[level].amount = FSub(@, take),
                  !.stack = <<[Top EXCEPT !.pc = IF FLe(remaining, FZero) THEN "end" ELSE "loop",
                                          !.loc = ("level" :> level) @@ ("take" :> take) @@ ("cost" :> cost) @@ ("remaining" :> remaining) @@ ("i" :> Top.loc["i"] + 1) @@ Top.loc]>> \o Tail(@)]
            /\ UNCHANGED <<callPc, callRet, scanVars>>

\* lines 12-17 (24-29): one level of the loop
WalkLevel ==
    /\ At("_executable_price", "loop")
    /\ Top.loc["i"] < Len(WalkedList)
    /\ \E level \in {WalkedList[Top.loc["i"] + 1]} :
       \E take \in {FMin(Obj(level).amount, Top.loc["remaining"])} :
       \E cost \in {FAdd(Top.loc["cost"], FMul(take, Obj(level).price))},
          remaining \in {FSub(Top.loc["remaining"], take)} :
            Goto(IF FLe(remaining, FZero) THEN "end" ELSE "loop",
                 ("level" :> level) @@ ("take" :> take) @@ ("cost" :> cost) @@ ("remaining" :> remaining) @@ ("i" :> Top.loc["i"] + 1) @@ Top.loc)

\* lines 18-20 (30-32), after the break or the last level
WalkEnd ==
    /\ \/ At("_executable_price", "end")
       \/ At("_executable_price", "loop") /\ Top.loc["i"] >= Len(WalkedList)
    /\ IF FGt(Top.loc["remaining"], FZero) THEN Return(None)
       ELSE IF FIsZero(Top.loc["size"]) THEN Raise(ZeroDivisionError)
       ELSE \E v \in {FDiv(Top.loc["cost"], Top.loc["size"])} : Return(v)

\* lines 35-39
TakerFee ==
    /\ At("_apply_taker_fee", "start")
    /\ \E rate \in {Obj(Top.loc["fees"]).taker_rate} :
       \E v \in {IF Top.loc["side"] = "buy" THEN FMul(Top.loc["unit_price"], FAdd(FromInt(1), rate))
                 ELSE FMul(Top.loc["unit_price"], FSub(FromInt(1), rate))} :
            Return(v)

\* lines 55-56
SpreadBuyWalk ==
    /\ At("find_cex_cex_opportunity", "start")
    /\ IF Obj(Top.loc["book_a"]).asks = <<>> THEN Raise(IndexError)
       ELSE \E approx_base_size \in {FDiv(Top.loc["size_in_quote"], FMax(Obj(Obj(Top.loc["book_a"]).asks[1]).price, AskFloor))} :
               Call("57", ("approx_base_size" :> approx_base_size) @@ Top.loc,
                    Frame("_executable_price", "buy_avg_price_a",
                          [order_book |-> Top.loc["book_a"], side |-> "buy", size |-> approx_base_size]))

\* lines 57-61
SpreadBuyFee ==
    /\ At("find_cex_cex_opportunity", "57")
    /\ IF Top.loc["buy_avg_price_a"] = None THEN Return(None)
       ELSE IF FIsZero(Top.loc["buy_avg_price_a"]) THEN Raise(ZeroDivisionError)
       ELSE \E base_amount \in {FDiv(Top.loc["size_in_quote"], Top.loc["buy_avg_price_a"])} :
               Call("64", ("base_amount" :> base_amount) @@ Top.loc,
                    Frame("_apply_taker_fee", "buy_unit_cost_with_fee",
                          [unit_price |-> Top.loc["buy_avg_price_a"], size |-> base_amount,
                           fees |-> Top.loc["fees_a"], side |-> "buy"]))

\* lines 64-68
SpreadSellWalk ==
    /\ At("find_cex_cex_opportunity", "64")
    /\ \E base_after_transfer \in {FMax(FSub(Top.loc["base_amount"], Top.loc["transfer_fee_in_base"]), FZero)} :
          IF FLe(base_after_transfer, FZero) THEN Return(None)
          ELSE Call("69", ("base_after_transfer" :> base_after_transfer) @@ Top.loc,
                    Frame("_executable_price", "sell_avg_price_b",
                          [order_book |-> Top.loc["book_b"], side |-> "sell", size |-> base_after_transfer]))

\* lines 69-71
SpreadSellFee ==
    /\ At("find_cex_cex_opportunity", "69")
    /\ IF Top.loc["sell_avg_price_b"] = None THEN Return(None)
       ELSE Call("74", Top.loc,
                 Frame("_apply_taker_fee", "sell_unit_price_with_fee",
                       [unit_price |-> Top.loc["sell_avg_price_b"], size |-> Top.loc["base_after_transfer"],
                        fees |-> Top.loc["fees_b"], side |-> "sell"]))

\* lines 74-97
SpreadResult74 ==
    /\ At("find_cex_cex_opportunity", "74")
    /\ \E cost_quote \in {FMul(Top.loc["buy_unit_cost_with_fee"], Top.loc["base_amount"])},
          proceeds_quote \in {FMul(Top.loc["sell_unit_price_with_fee"], Top.loc["base_after_transfer"])} :
       \E profit \in {FSub(proceeds_quote, cost_quote)} :
       \E roi_pct \in {IF FGt(cost_quote, FZero) THEN FMul(FromInt(100), FDiv(profit, cost_quote)) ELSE FZero} :
            IF FGe(roi_pct, Top.loc["threshold_pct"]) THEN Return(Opportunity("CEX_CEX", profit, roi_pct))
            ELSE Return(None)

\* multi_leg.py lines 33-73
PlanPath ==
    /\ At("plan_multi_leg_path", "start")
    /\ IF Top.loc["p2p_buy"] = None \/ Top.loc["spot_buy_price"] = None \/ Top.loc["spot_sell_price"] = None
       THEN Return(None)
       ELSE IF FIsZero(Obj(Top.loc["p2p_buy"]).price) THEN Raise(ZeroDivisionError)
       ELSE \E asset_amount_after_p2p \in {FDiv(Top.loc["size_in_fiat"], Obj(Top.loc["p2p_buy"]).price)} :
            \E asset_amount_after_transfer \in {FMax(FSub(asset_amount_after_p2p, Top.loc["transfer_fee_asset"]), FZero)} :
               IF FLe(asset_amount_after_transfer, FZero) THEN Return(None)
               ELSE \E sell_unit_after_fee \in {FMul(Top.loc["spot_sell_price"], FSub(FromInt(1), Obj(Top.loc["spot_sell_fees"]).taker_rate))} :
                    \E proceeds_fiat \in {FMul(sell_unit_after_fee, asset_amount_after_transfer)} :
                    \E profit_fiat \in {FSub(proceeds_fiat, Top.loc["size_in_fiat"])} :
                    \E roi_pct \in {IF FGt(Top.loc["size_in_fiat"], FZero) THEN FMul(FromInt(100), FDiv(profit_fiat, Top.loc["size_in_fiat"])) ELSE FZero} :
                       IF FLe(roi_pct, FZero) THEN Return(None)
                       ELSE Return(Opportunity("Multi_Leg", profit_fiat, roi_pct))

\* the caller keeps the first result and makes the call again, passing the
\* objects it passed the first time, as the first call left them
CallAgain ==
    /\ callPc = "return"
    /\ callPc' = "call"
    /\ UNCHANGED <<callArgs, callRet, scanVars>>

NextRepeat ==
    \/ Invoke
    \/ WalkStart
    \/ WalkLevel
    \/ WalkEnd
    \/ TakerFee
    \/ SpreadBuyWalk
    \/ SpreadBuyFee
    \/ SpreadSellWalk
    \/ SpreadSellFee
    \/ SpreadResult74
    \/ PlanPath
    \/ CallAgain

SpecRepeat == InitRepeat /\ [][NextRepeat]_vars

\* the call made or running is a repetition: callRet holds the first result
Repeating == callPc \in {"call", "run"} /\ callRet # <<>>

\* the book object behind a reference, as the value the functions read
BookAt(heap, ref) ==
    [ok |-> TRUE, asks |-> [i \in 1..Len(heap[ref].asks) |-> heap[heap[ref].asks[i]]],
                  bids |-> [i \in 1..Len(heap[ref].bids) |-> heap[heap[ref].bids[i]]]]

\* what the function of the call returns for the objects in heap
ResultOn(heap) ==
    LET a == callArgs.args
    IN  CASE callArgs.fn = "_executable_price" ->
               _executable_price(BookAt(heap, a.order_book), a.side, a.size)
          [] callArgs.fn = "_apply_taker_fee" ->
               _apply_taker_fee(a.unit_price, a.size, heap[a.fees], a.side)
          [] callArgs.fn = "find_cex_cex_opportunity" ->
               find_cex_cex_opportunity(a.size_in_quote, BookAt(heap, a.book_a), BookAt(heap, a.book_b), heap[a.fees_a], heap[a.fees_b], a.threshold_pct, a.transfer_fee_in_base)
          [] callArgs.fn = "plan_multi_leg_path" ->
               plan_multi_leg_path(IF a.p2p_buy = None THEN None ELSE heap[a.p2p_buy], a.spot_buy_price, heap[a.spot_buy_fees], a.transfer_fee_asset, a.spot_sell_price, heap[a.spot_sell_fees], a.size_in_fiat)

\* every statement run on the objects gives what the function gives on
\* their values
StatementsAgreeWithFunctions ==
    callPc = "return" /\ "heap" \in DOMAIN callArgs => callRet = ResultOn(callArgs.heap)

\* C27: _executable_price, _apply_taker_fee, find_cex_cex_opportunity and
\* plan_multi_leg_path leave every input unchanged and keep no state between
\* calls: no statement they run changes an object reachable from an
\* argument or a module-level name, whether the two books are two objects
\* or one, and a second call with the same arguments, run on the objects as
\* the first call left them, returns what the first returned.
C27_CallsLeaveInputsAndRepeat ==
    [][(callPc = "call" \/ callPc = "run") =>
         /\ (callArgs').heap = callArgs.heap
         /\ (callArgs').glob = callArgs.glob
         /\ (Repeating /\ callPc' = "return" => callRet' = callRet)]_vars

\* the repetition of a call that returned an opportunity is in the walk of
\* the bids of book B, past a level
C27_Witness ==
    /\ Repeating
    /\ callPc = "run"
    /\ IsOpportunity(callRet)
    /\ Len(callArgs.stack) = 2
    /\ Top.fn = "_executable_price" /\ Top.loc["side"] = "sell"
    /\ Top.pc = "end" /\ Top.loc["i"] >= 1

-----------------------------------------------------------------------------
(* The order of a scan cycle                                               *)

\* the position in the input list of the symbol of the i-th row
RowIndex(i) == CHOOSE k \in 1..Len(symbols) : symbols[k] = rows[i].sym

\* no order-book request of the pool is pending or in flight, and every
\* finished one was yielded
PoolDrained == queue = <<>> /\ running = {} /\ finished = {}

\* C28: scan_symbols_once processes the symbols strictly one at a time in
\* input order. During the pre-pass no order-book request exists, and when
\* the first one exists the pre-pass has covered every venue; the cursor
\* moves to the next symbol of the list only when every request of the
\* earlier symbol has finished and was yielded; and the rows are in
\* input-list order, each for a symbol already processed.
C28_SymbolsOneAtATimeInOrder ==
    /\ [](pc = "prepass" => symIdx = 0 /\ Requested = {} /\ rows = <<>>)
    /\ [](Requested # {} => DOMAIN ex_vols = Venues /\ DOMAIN ex_limits = Venues)
    /\ [][symIdx' # symIdx => PoolDrained /\ symIdx' = symIdx + 1]_vars
    /\ [][rows' # rows => PoolDrained /\ Len(rows') = Len(rows) + 1 /\ rows'[Len(rows')].sym = Sym]_vars
    /\ [](\A i, j \in 1..Len(rows) :
            /\ rows[i].sym \in SymbolSet /\ RowIndex(i) <= symIdx
            /\ i < j => RowIndex(i) < RowIndex(j))

\* the cycle returned a row for each of the two symbols, the second one
\* after requests of two venues
C28_Witness ==
    /\ pc = "done"
    /\ Len(rows) = 2 /\ rows[1].sym = "S1" /\ rows[2].sym = "S2"
    /\ Len(order) = 2

-----------------------------------------------------------------------------
(* The loop of ui/mega_scan.py main, one iteration                         *)

\* the namespace of the options the loop reads
MegaArgs(sz, thr, w) == [size |-> sz, threshold |-> thr, workers |-> w]

\* ui/mega_scan.py lines 72-79
mega_fetch_best_levels(r) ==
    IF r.ok
    THEN LET best_ask == IF r.asks # <<>> THEN r.asks[1].price ELSE None
             best_bid == IF r.bids # <<>> THEN r.bids[1].price ELSE None
         IN  <<best_ask, best_bid>>
    ELSE <<None, None>>

\* lines 166-174: the futures yielded in the order ord, folded into the
\* trackers
RECURSIVE MegaTrackers(_, _, _)
MegaTrackers(b, respOf, ord) ==
    IF ord = <<>> THEN b
    ELSE LET ex_id == Head(ord)
             ab == mega_fetch_best_levels(respOf[ex_id])
             ask == ab[1]
             bid == ab[2]
             b1 == IF ask # None /\ (b.ask_val = None \/ FLt(ask, b.ask_val))
                   THEN [b EXCEPT !.ask_val = ask, !.ask_ex = ex_id] ELSE b
             b2 == IF bid # None /\ (b1.bid_val = None \/ FGt(bid, b1.bid_val))
                   THEN [b1 EXCEPT !.bid_val = bid, !.bid_ex = ex_id] ELSE b1
         IN  MegaTrackers(b2, respOf, Tail(ord))

\* faulty variant: a ROI equal to the threshold is not displayed
MegaLoopBody_Strict(sym, args, listed, respOf, ord) ==
    LET IsListed(ex) == ex \in listed
        b == MegaTrackers(NoBest, respOf, SelectSeq(ord, IsListed))
    IN  IF b.ask_val = None \/ b.bid_val = None THEN Skipped
        ELSE IF b.ask_ex = b.bid_ex THEN Skipped
        ELSE IF FIsZero(b.ask_val) THEN Raised
        ELSE LET cost == args.size
                 base_amount == FDiv(cost, b.ask_val)
                 proceeds == FMul(b.bid_val, base_amount)
                 profit == FSub(proceeds, cost)
                 roi == IF FGt(cost, FZero) THEN FDiv(FMul(FromInt(100), profit), cost) ELSE FZero
             IN  IF FGt(roi, args.threshold)
                 THEN Emitted([sym |-> sym, ask_ex |-> b.ask_ex, ask |-> b.ask_val,
                               bid_ex |-> b.bid_ex, bid |-> b.bid_val,
                               roi |-> roi, profit |-> profit])
                 ELSE Skipped

\* lines 155-186: the loop body for one symbol, given the venues that list
\* it, their answers and the order in which their futures are yielded.
\* cost / best_ask_val (line 181) raises ZeroDivisionError for a best ask of
\* 0.0
MegaLoopBody(sym, args, listed, respOf, ord) ==
    LET IsListed(ex) == ex \in listed
        b == MegaTrackers(NoBest, respOf, SelectSeq(ord, IsListed))
    IN  IF b.ask_val = None \/ b.bid_val = None THEN Skipped
        ELSE IF b.ask_ex = b.bid_ex THEN Skipped
        ELSE IF FIsZero(b.ask_val) THEN Raised
        ELSE LET cost == args.size
                 base_amount == FDiv(cost, b.ask_val)
                 proceeds == FMul(b.bid_val, base_amount)
                 profit == FSub(proceeds, cost)
                 roi == IF FGt(cost, FZero) THEN FDiv(FMul(FromInt(100), profit), cost) ELSE FZero
             IN  IF FGe(roi, args.threshold)
                 THEN Emitted([sym |-> sym, ask_ex |-> b.ask_ex, ask |-> b.ask_val,
                               bid_ex |-> b.bid_ex, bid |-> b.bid_val,
                               roi |-> roi, profit |-> profit])
                 ELSE Skipped

\* line 157: ThreadPoolExecutor raises ValueError for max_workers <= 0
MegaPoolRaises(args) == args.workers <= 0

\* the options of mega_scan that correspond to the scan's arguments
SameArgs == MegaArgs(size, threshold, workers)

\* the arguments that switch the volume filter and the lot filter off
FiltersOff == FIsZero(min_volume) /\ ~enforce_lots

\* C30: with min_volume = 0 and enforce_lots = false, scan_symbols_once does
\* for every symbol what one iteration of the loop of ui/mega_scan.py main
\* does for the same venues, listings, answers and completion order, size,
\* threshold and workers: the same row appended to the same rows or none,
\* and an exception where the loop raises one.
C30_ScanOnceRefinesMegaLoop ==
    /\ [][FiltersOff /\ pc = "collect" /\ pc' # "collect" =>
            LET o == MegaLoopBody(Sym, SameArgs, Listing, resp, order)
            IN  /\ last' = o
                /\ rows' = IF o.out = "row" THEN Append(rows, o.row) ELSE rows
                /\ (pc' = "raised") = (o.out = "raise")]_vars
    /\ [][FiltersOff /\ pc = "loop" /\ pc' \notin {"loop", "done"} =>
            (pc' = "raised") = MegaPoolRaises(SameArgs)]_vars
    /\ [][FiltersOff /\ (rows' # rows \/ pc' = "raised") =>
            pc \in {"loop", "collect"}]_vars

\* both symbols gave a row, the second with the later answer beating the
\* earlier one on the ask and a ROI equal to the threshold
C30_Witness ==
    /\ pc = "done"
    /\ Len(rows) = 2
    /\ Len(order) = 2
    /\ resp[order[1]].ok /\ resp[order[1]].asks # <<>>
    /\ best_ask_ex = order[2]
    /\ rows[2].roi = threshold
    /\ last = MegaLoopBody(Sym, SameArgs, Listing, resp, order)
====
